---- MODULE Spec2Model ----
(***************************************************************************)
(* MiniBit (src/minibit): the block store, the unchoke manager and the     *)
(* peer node, as state machines.                                           *)
(*                                                                         *)
(* A block id "{file_name}_{i}" is modelled by its numeric suffix i, the   *)
(* key int(x.split('_')[-1]) the code sorts by; all ids of one model share *)
(* the file name.  Bytes are sequences of integers 0..255.                 *)
(***************************************************************************)
EXTENDS Integers, Sequences, FiniteSets, TLC

VARIABLES
    \* a stand-alone BlockManager and the last call made on it
    bs, bs_last,
    \* a stand-alone UnchokeManager and the last call made on it
    um, um_last,
    \* one Peer among peers it does not control:
    n_mode,     \* "off" before share_file / download_file, then "up"
    n_bm,       \* Peer.block_manager
    n_um,       \* Peer.unchoke_manager
    n_conns,    \* Peer.connections: peer id -> PeerConnection
    n_known,    \* Peer.known_peers_info: its keys, in insertion order
    n_task,     \* Peer.download_task is set
    n_out,      \* the bytes reconstruct_file wrote, or None
    n_socks,    \* the PeerConnection objects and the task reading each
    n_mgr,      \* where _manage_connections_and_requests stands
    n_ev,       \* the handler that ran last and the frame it read
    n_sent,     \* the frames the last step sent: {[sock, peer, msg]}, with
                \* the commands it sent to the tracker (sock 0)
    \* the Tracker and the last command it processed, with its response
    tk, tk_last,
    \* a closed swarm: the Peer objects and the TCP connections between them
    w_node, w_link,
    \* the tasks of one Peer between the statements of their BlockManager
    \* calls: the store, each task's position, and what add_block returned
    t_bm, t_pc, t_hist,
    \* a stand-alone UnchokeManager of src/peer, with the clock, and the last
    \* call made on it
    rm, rm_last,
    \* the connections of a Peer whose manager task dials, and the last step
    dc, dc_last,
    \* a Peer with its tasks around a call of stop()
    sd

storeVars == <<bs, bs_last>>
chokeVars == <<um, um_last>>
nodeVars  == <<n_mode, n_bm, n_um, n_conns, n_known, n_task, n_out, n_socks,
               n_mgr, n_ev, n_sent>>
trackerVars == <<tk, tk_last>>
swarmVars == <<w_node, w_link>>
taskVars  == <<t_bm, t_pc, t_hist>>
rateVars  == <<rm, rm_last>>
dialVars  == <<dc, dc_last>>
stopVars  == <<sd>>
sideVars  == <<rm, rm_last, dc, dc_last, sd>>
vars      == <<bs, bs_last, um, um_last, n_mode, n_bm, n_um, n_conns, n_known,
               n_task, n_out, n_socks, n_mgr, n_ev, n_sent, tk, tk_last,
               w_node, w_link, t_bm, t_pc, t_hist, rm, rm_last, dc, dc_last,
               sd>>

\* ---------------------------------------------------------------- bounds
\* Block ids a caller of the block store may name: 0..MaxBlockId.
MaxBlockId == 1
\* Peers known to a stand-alone block store: 1..NumStorePeers.
NumStorePeers == 2
\* Longest file handed to load_from_file in the stand-alone block store.
MaxFileLen == 3
\* Peers known to a stand-alone unchoke manager: 1..NumChokePeers.
NumChokePeers == 5
\* PeerConnection objects one Peer creates over a run: 1..NumSocks.
NumSocks == 2
\* Peers that talk to a stand-alone tracker: 1..NumTrackerPeers.
NumTrackerPeers == 7
\* TCP connections of the swarm that are open at one end at least.
NumLinks == 2
\* Frames of one connection sent and not yet read, over both directions,
\* beyond which the periodic tasks wait before they send.
MaxInFlight == 3
NumLinks3 == 3
\* Peers known to a stand-alone UnchokeManager of src/peer: 1..NumRatePeers.
NumRatePeers == 4
\* Steps of EVALUATION_INTERVAL seconds the clock of that manager takes.
MaxRateTicks == 1
\* Peers of the swarm of a Peer that dials: 1..NumDialPeers.
NumDialPeers == 11
\* PeerConnection objects a Peer creates around its stop(): 1..NumStopConns.
NumStopConns == 3

\* ------------------------------------------------------- program constants
MAX_FIXED_UNCHOKED == 4
\* the most peers a GET_PEERS response lists
MAX_PEERS_LISTED == 5
\* UnchokeManager.MAX_FIXED_UNCHOKED of src/peer
PEER_MAX_FIXED_UNCHOKED == 3
OPTIMISTIC_INTERVAL == 30
EVALUATION_INTERVAL == 10
\* Peer.MAX_CONNECTIONS of src/peer
MAX_CONNECTIONS == 10

\* --------------------------------------------------------------- helpers
Range(s) == {s[i] : i \in 1..Len(s)}

Min(a, b) == IF a < b THEN a ELSE b

\* sorted(list(S), key=int suffix): the ids of S in ascending index order.
RECURSIVE SortedByIndex(_)
SortedByIndex(S) ==
    IF S = {} THEN <<>>
    ELSE LET m == CHOOSE x \in S : \A y \in S : x <= y
         IN  <<m>> \o SortedByIndex(S \ {m})

\* All orders of a finite set (the outcomes of list(set) and random.shuffle).
RECURSIVE Orders(_)
Orders(S) ==
    IF S = {} THEN {<<>>}
    ELSE UNION {{<<x>> \o t : t \in Orders(S \ {x})} : x \in S}

\* A Python dict as a function; d[k] = v on a dict.
DictSet(d, k, v) == [x \in DOMAIN d \cup {k} |-> IF x = k THEN v ELSE d[x]]

EmptyDict == [x \in {} |-> 0]

\* --------------------------------------------------- bytes and hex strings
\* bytes.hex(): two hex digits (0..15) per byte, high digit first.
RECURSIVE Hex(_)
Hex(data) ==
    IF data = <<>> THEN <<>>
    ELSE <<Head(data) \div 16, Head(data) % 16>> \o Hex(Tail(data))

\* bytes.fromhex(): pairs of digits back to bytes.
RECURSIVE FromHex(_)
FromHex(h) ==
    IF Len(h) < 2 THEN <<>>
    ELSE <<h[1] * 16 + h[2]>> \o FromHex(SubSeq(h, 3, Len(h)))

\* ------------------------------------------------------------ BlockManager
\* BlockManager.__init__
NewBlockManager(block_size) ==
    [ block_size        |-> block_size,
      my_blocks         |-> EmptyDict,
      total_block_count |-> 0,
      all_block_ids     |-> <<>>,
      peer_block_map    |-> EmptyDict ]

\* A variant of load_from_file that counts whole blocks only and drops the
\* bytes after the last whole block.
load_from_file_floor(bm, file) ==
    LET k     == bm.block_size
        total == Len(file) \div k
    IN  [bm EXCEPT
           !.total_block_count = total,
           !.all_block_ids     = [i \in 1..total |-> i - 1],
           !.my_blocks         = [b \in 0..(total - 1) |->
                                     SubSeq(file, b * k + 1, (b + 1) * k)]]

\* BlockManager.load_from_file on a file holding the bytes `file`.
load_from_file(bm, file) ==
    LET k     == bm.block_size
        total == (Len(file) + k - 1) \div k
        ids   == [i \in 1..total |-> i - 1]
        read  == [b \in 0..(total - 1) |->
                     SubSeq(file, b * k + 1, Min((b + 1) * k, Len(file)))]
    IN  [bm EXCEPT
           !.total_block_count = total,
           !.all_block_ids     = ids,
           !.my_blocks         = [b \in DOMAIN bm.my_blocks \cup DOMAIN read |->
                                     IF b \in DOMAIN read THEN read[b]
                                     ELSE bm.my_blocks[b]]]

\* A variant of add_block that overwrites a block it already holds.
add_block_overwrite(bm, block_id, data) ==
    [ ret |-> TRUE,
      bm  |-> [bm EXCEPT !.my_blocks = DictSet(bm.my_blocks, block_id, data)] ]

\* BlockManager.add_block: the returned flag and the store after the call.
add_block(bm, block_id, data) ==
    IF block_id \in DOMAIN bm.my_blocks
    THEN [ret |-> FALSE, bm |-> bm]
    ELSE [ret |-> TRUE,
          bm  |-> [bm EXCEPT !.my_blocks = DictSet(bm.my_blocks, block_id, data)]]

\* Python's None where bytes are expected: no byte string holds -1.
None == <<-1>>

\* BlockManager.get_block_data: the bytes, or None.

get_block_data(bm, block_id) ==
    IF block_id \in DOMAIN bm.my_blocks THEN bm.my_blocks[block_id] ELSE None

\* `if data:` on what get_block_data returned
Truthy(data) == data # None /\ data # <<>>

\* BlockManager.get_my_blocks
get_my_blocks(bm) == DOMAIN bm.my_blocks

\* BlockManager.get_missing_blocks
get_missing_blocks(bm) ==
    IF bm.all_block_ids = <<>> THEN {}
    ELSE Range(bm.all_block_ids) \ get_my_blocks(bm)

\* The store after is_complete's repair of total_block_count.
is_complete_store(bm) ==
    IF bm.total_block_count = 0 /\ Len(bm.all_block_ids) > 0
    THEN [bm EXCEPT !.total_block_count = Len(bm.all_block_ids)]
    ELSE bm

\* BlockManager.is_complete: the returned flag.
is_complete(bm) ==
    LET b == is_complete_store(bm)
    IN  Cardinality(DOMAIN b.my_blocks) > 0
        /\ Cardinality(DOMAIN b.my_blocks) = b.total_block_count

\* BlockManager.reconstruct_file: the bytes written, or None when incomplete.
RECURSIVE Concat(_, _)
Concat(order, blocks) ==
    IF order = <<>> THEN <<>>
    ELSE blocks[Head(order)] \o Concat(Tail(order), blocks)

reconstruct_file(bm) ==
    IF ~is_complete(bm) THEN None
    ELSE Concat(SortedByIndex(DOMAIN bm.my_blocks), bm.my_blocks)

\* A variant of update_peer_blocks that keeps what the peer advertised before.
update_peer_blocks_keep(bm, peer_id, their_blocks) ==
    LET boot == bm.total_block_count = 0 /\ their_blocks # {}
        keys == DOMAIN bm.peer_block_map \cup their_blocks
    IN  [bm EXCEPT
           !.total_block_count = IF boot THEN Cardinality(their_blocks) ELSE @,
           !.all_block_ids     = IF boot THEN SortedByIndex(their_blocks) ELSE @,
           !.peer_block_map    =
               [b \in keys |->
                   IF b \in their_blocks
                   THEN (IF b \in DOMAIN bm.peer_block_map
                         THEN bm.peer_block_map[b] ELSE {}) \cup {peer_id}
                   ELSE bm.peer_block_map[b]]]

\* BlockManager.update_peer_blocks
update_peer_blocks(bm, peer_id, their_blocks) ==
    LET boot == bm.total_block_count = 0 /\ their_blocks # {}
        keys == DOMAIN bm.peer_block_map \cup their_blocks
    IN  [bm EXCEPT
           !.total_block_count = IF boot THEN Cardinality(their_blocks) ELSE @,
           !.all_block_ids     = IF boot THEN SortedByIndex(their_blocks) ELSE @,
           !.peer_block_map    =
               [b \in keys |->
                   IF b \in their_blocks
                   THEN (IF b \in DOMAIN bm.peer_block_map
                         THEN bm.peer_block_map[b] ELSE {}) \cup {peer_id}
                   ELSE bm.peer_block_map[b] \ {peer_id}]]

\* A variant of remove_peer_blocks that leaves a block its last holder.
remove_peer_blocks_keep_sole(bm, peer_id) ==
    [bm EXCEPT !.peer_block_map =
        [b \in DOMAIN bm.peer_block_map |->
            IF bm.peer_block_map[b] = {peer_id} THEN {peer_id}
            ELSE bm.peer_block_map[b] \ {peer_id}]]

\* BlockManager.remove_peer_blocks
remove_peer_blocks(bm, peer_id) ==
    [bm EXCEPT !.peer_block_map =
        [b \in DOMAIN bm.peer_block_map |-> bm.peer_block_map[b] \ {peer_id}]]

\* BlockManager.get_block_rarity
get_block_rarity(bm) ==
    [b \in DOMAIN bm.peer_block_map |-> Cardinality(bm.peer_block_map[b])]

\* rarity.get(block, 0)
RarityOf(bm, b) ==
    IF b \in DOMAIN bm.peer_block_map THEN get_block_rarity(bm)[b] ELSE 0

\* BlockManager.get_rarest_missing_blocks: sorted() is stable over list(missing),
\* whose order is the set's; every ascending order of the missing blocks can
\* be returned.
get_rarest_missing_blocks(bm) ==
    {s \in Orders(get_missing_blocks(bm)) :
        \A i \in 1..(Len(s) - 1) : RarityOf(bm, s[i]) <= RarityOf(bm, s[i + 1])}

\* BlockManager.get_peer_blocks
get_peer_blocks(bm, peer_id) ==
    {b \in DOMAIN bm.peer_block_map : peer_id \in bm.peer_block_map[b]}

\* ----------------------------------------------------------- UnchokeManager
\* optimistic_unchoke = None: no peer has this id.
NoPeer == 0

\* UnchokeManager.__init__
NewUnchokeManager == [fixed_unchoked |-> {}, optimistic_unchoke |-> NoPeer]

\* {x} if x else set()
OptSet(p) == IF p = NoPeer THEN {} ELSE {p}

\* UnchokeManager.unregister_peer
unregister_peer(m, peer_id) ==
    [ fixed_unchoked     |-> m.fixed_unchoked \ {peer_id},
      optimistic_unchoke |-> IF m.optimistic_unchoke = peer_id THEN NoPeer
                             ELSE m.optimistic_unchoke ]

\* interested_peers[:MAX_FIXED_UNCHOKED] as a set
FirstFixed(order) == {order[i] : i \in 1..Min(MAX_FIXED_UNCHOKED, Len(order))}

\* What one shuffle and one random.choice make of the call.
EvaluateOutcome(m, new_fixed, new_opt) ==
    LET currently == m.fixed_unchoked \cup OptSet(m.optimistic_unchoke)
        newly     == new_fixed \cup OptSet(new_opt)
    IN  [ um         |-> [fixed_unchoked |-> new_fixed, optimistic_unchoke |-> new_opt],
          to_choke   |-> currently \ newly,
          to_unchoke |-> newly \ currently ]

\* A variant of evaluate_peers that draws the optimistic peer among all the
\* interested peers.
evaluate_peers_any_optimistic(m, interested_peers) ==
    IF interested_peers = <<>>
    THEN {[ um         |-> m,
            to_choke   |-> m.fixed_unchoked \cup OptSet(m.optimistic_unchoke),
            to_unchoke |-> {} ]}
    ELSE UNION {
           {EvaluateOutcome(m, FirstFixed(order), o) : o \in Range(order)}
           : order \in Orders(Range(interested_peers)) }

\* UnchokeManager.evaluate_peers: every (state, to_choke, to_unchoke) the call
\* can end with, over the outcomes of random.shuffle and random.choice.
evaluate_peers(m, interested_peers) ==
    IF interested_peers = <<>>
    THEN {[ um         |-> m,
            to_choke   |-> m.fixed_unchoked \cup OptSet(m.optimistic_unchoke),
            to_unchoke |-> {} ]}
    ELSE UNION {
           LET new_fixed == FirstFixed(order)
               potential == Range(order) \ new_fixed
           IN  IF potential = {}
               THEN {EvaluateOutcome(m, new_fixed, NoPeer)}
               ELSE {EvaluateOutcome(m, new_fixed, o) : o \in potential}
           : order \in Orders(Range(interested_peers)) }

\* UnchokeManager.is_unchoked
is_unchoked(m, peer_id) ==
    peer_id \in m.fixed_unchoked \/ peer_id = m.optimistic_unchoke

\* =========================================================================
\* The block store alone: any sequence of calls on one BlockManager.
\* =========================================================================
StoreBlockIds == 0..MaxBlockId
StorePeers    == 1..NumStorePeers
StoreBytes    == {10, 255}
StoreData     == {<<>>, <<10>>, <<255, 10>>}
StoreFiles    == UNION {[1..n -> StoreBytes] : n \in 0..MaxFileLen}
StoreBlockSizes == {1, 2}

Call(op, id, data, peer, blocks, ret) ==
    [op |-> op, id |-> id, data |-> data, peer |-> peer, blocks |-> blocks, ret |-> ret]

BSInit ==
    /\ \E k \in StoreBlockSizes : bs = NewBlockManager(k)
    /\ bs_last = Call("new", 0, <<>>, 0, {}, FALSE)

\* share_file: load_from_file is called on the store just constructed.
BSLoadFromFile ==
    /\ bs_last.op = "new"
    /\ \E f \in StoreFiles :
          /\ bs' = load_from_file(bs, f)
          /\ bs_last' = Call("load_from_file", 0, f, 0, {}, FALSE)
    /\ UNCHANGED <<chokeVars, nodeVars, trackerVars, swarmVars, taskVars, sideVars>>

BSAddBlock ==
    \E id \in StoreBlockIds, data \in StoreData :
       LET r == add_block(bs, id, data)
       IN  /\ bs' = r.bm
           /\ bs_last' = Call("add_block", id, data, 0, {}, r.ret)
           /\ UNCHANGED <<chokeVars, nodeVars, trackerVars, swarmVars, taskVars, sideVars>>

BSUpdatePeerBlocks ==
    \E p \in StorePeers, blocks \in SUBSET StoreBlockIds :
       /\ bs' = update_peer_blocks(bs, p, blocks)
       /\ bs_last' = Call("update_peer_blocks", 0, <<>>, p, blocks, FALSE)
       /\ UNCHANGED <<chokeVars, nodeVars, trackerVars, swarmVars, taskVars, sideVars>>

BSRemovePeer ==
    \E p \in StorePeers :
       /\ bs' = remove_peer_blocks(bs, p)
       /\ bs_last' = Call("remove_peer_blocks", 0, <<>>, p, {}, FALSE)
       /\ UNCHANGED <<chokeVars, nodeVars, trackerVars, swarmVars, taskVars, sideVars>>

BSIsComplete ==
    /\ bs' = is_complete_store(bs)
    /\ bs_last' = Call("is_complete", 0, <<>>, 0, {}, is_complete(bs))
    /\ UNCHANGED <<chokeVars, nodeVars, trackerVars, swarmVars, taskVars, sideVars>>

\* The request_block branch of _message_loop on a live connection of
\* peer_id: the frames it sends in reply.
ServeReply(m, bm, peer_id, block_id) ==
    IF is_unchoked(m, peer_id) /\ Truthy(get_block_data(bm, block_id))
    THEN {[type |-> "block_data", block_id |-> block_id,
           data |-> Hex(get_block_data(bm, block_id))]}
    ELSE {}

\* A request_block for block id arrives from peer p, unchoked or not: ret
\* records is_unchoked(p), blocks the block ids of the block_data frames
\* sent in reply and data the hex string they carry (None if none is sent).
BSRequestBlock ==
    \E id \in StoreBlockIds, p \in StorePeers :
       \E m \in {NewUnchokeManager,
                 [NewUnchokeManager EXCEPT !.fixed_unchoked = {p}]} :
          LET reply == ServeReply(m, bs, p, id)
          IN  /\ bs' = bs
              /\ bs_last' = Call("request_block", id,
                                 IF reply = {} THEN None
                                 ELSE (CHOOSE f \in reply : TRUE).data,
                                 p, {f.block_id : f \in reply},
                                 is_unchoked(m, p))
              /\ UNCHANGED <<chokeVars, nodeVars, trackerVars, swarmVars, taskVars, sideVars>>

BSNext ==
    \/ BSLoadFromFile
    \/ BSAddBlock
    \/ BSUpdatePeerBlocks
    \/ BSRemovePeer
    \/ BSIsComplete
    \/ BSRequestBlock

BSIdle == bs = NewBlockManager(1) /\ bs_last = Call("idle", 0, <<>>, 0, {}, FALSE)

\* =========================================================================
\* The unchoke manager alone: any sequence of calls on one UnchokeManager.
\* =========================================================================
ChokePeers == 1..NumChokePeers

UMCall(op, interested, peer, to_choke, to_unchoke) ==
    [op |-> op, interested |-> interested, peer |-> peer,
     to_choke |-> to_choke, to_unchoke |-> to_unchoke]

UMInit ==
    /\ um = NewUnchokeManager
    /\ um_last = UMCall("new", <<>>, NoPeer, {}, {})

\* The caller passes the ids of distinct connections; the shuffle makes the
\* order they come in irrelevant.
UMEvaluatePeers ==
    \E I \in SUBSET ChokePeers :
       \E r \in evaluate_peers(um, SortedByIndex(I)) :
          /\ um' = r.um
          /\ um_last' = UMCall("evaluate_peers", SortedByIndex(I), NoPeer,
                               r.to_choke, r.to_unchoke)
          /\ UNCHANGED <<storeVars, nodeVars, trackerVars, swarmVars, taskVars, sideVars>>

UMUnregisterPeer ==
    \E p \in ChokePeers :
       /\ um' = unregister_peer(um, p)
       /\ um_last' = UMCall("unregister_peer", <<>>, p, {}, {})
       /\ UNCHANGED <<storeVars, nodeVars, trackerVars, swarmVars, taskVars, sideVars>>

UMNext ==
    \/ UMEvaluatePeers
    \/ UMUnregisterPeer

UMIdle == um = NewUnchokeManager /\ um_last = UMCall("idle", <<>>, NoPeer, {}, {})

\* =========================================================================
\* One Peer (src/minibit/peer.py) among remote peers it does not control.
\* The remote peers hold blocks of one shared file and answer requests with
\* the file's bytes; when they send, what they advertise and whether they
\* complete a handshake is theirs to choose.  Each thread of the Peer takes
\* its steps between the steps of the others.  Remote peer 1 is a seeder of
\* the file, remote peer 2 a leecher that holds block 0 of it.
\* =========================================================================
NodePeers      == {1, 2}
SockIds        == 1..NumSocks
\* Peer.peer_id of the node itself
SelfId         == 3
\* The file the swarm shares and the block size its peers were started with.
NodeFile       == <<17, 34, 51>>
NodeBlockSizes == {2}

\* The seeder's blocks of the shared file.
FileBlocksOf ==
    [k \in NodeBlockSizes |->
        load_from_file(NewBlockManager(k), NodeFile).my_blocks]
FileBlocks(k)   == FileBlocksOf[k]
FileBlockIds(k) == DOMAIN FileBlocks(k)

\* The block sets a remote peer can advertise, to us or to the tracker.
Holdings(p, k) ==
    IF p = 1 THEN {FileBlockIds(k)} ELSE {{0}}

\* A frame of the wire protocol as read_message returns it; "eof" stands for
\* read_message returning None, "bogus" for a type the protocol does not have.
Frame(type, peer_id, blocks, block_id, data) ==
    [type |-> type, peer_id |-> peer_id, blocks |-> blocks,
     block_id |-> block_id, data |-> data]
HandshakeMsg(pid)    == Frame("handshake", pid, {}, 0, <<>>)
HaveMsg(blocks)      == Frame("have", NoPeer, blocks, 0, <<>>)
RequestMsg(b)        == Frame("request_block", NoPeer, {}, b, <<>>)
BlockDataMsg(b, hex) == Frame("block_data", NoPeer, {}, b, hex)
ChokeMsg             == Frame("choke", NoPeer, {}, 0, <<>>)
UnchokeMsg           == Frame("unchoke", NoPeer, {}, 0, <<>>)
EofMsg               == Frame("eof", NoPeer, {}, 0, <<>>)
BogusMsg             == Frame("bogus", NoPeer, {}, 0, <<>>)
NoMsg                == Frame("none", NoPeer, {}, 0, <<>>)

\* PeerConnection.__init__, with the task that reads the connection:
\* st is "free" (not created), "dialing" (our handshake sent, reply awaited),
\* "loop" (_message_loop runs) or "dead" (closed); cbp is _choked_by_peer;
\* serve holds the block a request_block passed is_unchoked for; req holds the
\* blocks requested from the peer and not yet delivered; hs_sent and first
\* record the handshake we sent and the type of the first frame we read;
\* cbu records whether the last choke or unchoke frame we sent on the
\* connection was a choke (it is TRUE while none was sent).
NewSock ==
    [st |-> "free", peer |-> NoPeer, cbp |-> TRUE,
     serve |-> {}, req |-> {}, hs_sent |-> FALSE, first |-> "none",
     cbu |-> TRUE]

\* PeerConnection.close: the object is not used again.
ClosedSock == [NewSock EXCEPT !.st = "dead"]

\* The last step taken: the operation, the type of the frame it read and the
\* connection it ran on.
Ev(op, frame, sock) == [op |-> op, type |-> frame.type, sock |-> sock]

Sent(sock, peer, msg) == [sock |-> sock, peer |-> peer, msg |-> msg]

\* _send_to_tracker: a command, with the peer_id it adds and the block list
\* REGISTER and UPDATE_BLOCKS carry.
TrackerMsg(command, blocks) ==
    Sent(0, NoPeer, Frame(command, SelfId, blocks, 0, <<>>))

DictRemove(d, k) == [x \in DOMAIN d \ {k} |-> d[x]]

SeqRemove(q, x) == SelectSeq(q, LAMBDA y : y # x)

\* The peer lists a GET_PEERS reply can carry: distinct other peers, each
\* with the block set the tracker holds for it.
TrackerResponsesOf ==
    [k \in NodeBlockSizes |->
      UNION { UNION { { [i \in 1..Len(o) |-> [peer_id |-> o[i], blocks |-> f[i]]]
                        : f \in {g \in [1..Len(o) -> SUBSET FileBlockIds(k)] :
                                   \A i \in 1..Len(o) : g[i] \in Holdings(o[i], k)} }
                      : o \in Orders(P) }
              : P \in SUBSET NodePeers }]
TrackerResponses(k) == TrackerResponsesOf[k]

\* Peer._update_peers_from_tracker on a reply listing `peers`.
RECURSIVE update_peers_from_tracker(_, _, _)
update_peers_from_tracker(known, bm, peers) ==
    IF peers = <<>> THEN [known |-> known, bm |-> bm]
    ELSE LET info == Head(peers)
         IN  IF info.peer_id # SelfId /\ info.peer_id \notin Range(known)
             THEN update_peers_from_tracker(
                      Append(known, info.peer_id),
                      update_peer_blocks(bm, info.peer_id, info.blocks),
                      Tail(peers))
             ELSE update_peers_from_tracker(known, bm, Tail(peers))

NInit ==
    /\ n_mode = "off"
    /\ \E k \in NodeBlockSizes : n_bm = NewBlockManager(k)
    /\ n_um = NewUnchokeManager
    /\ n_conns = EmptyDict
    /\ n_known = <<>>
    /\ n_task = FALSE
    /\ n_out = None
    /\ n_socks = [s \in SockIds |-> NewSock]
    /\ n_mgr = [pc |-> "sleep", todo |-> <<>>, dial |-> {}, pick |-> {}]
    /\ n_ev = Ev("new", NoMsg, 0)
    /\ n_sent = {}

\* Peer.share_file
NShareFile ==
    /\ n_mode = "off"
    /\ n_mode' = "up"
    /\ n_bm' = load_from_file(NewBlockManager(n_bm.block_size), NodeFile)
    /\ n_ev' = Ev("share_file", NoMsg, 0)
    /\ n_sent' = {TrackerMsg("REGISTER", get_my_blocks(n_bm'))}
    /\ UNCHANGED <<n_um, n_conns, n_known, n_task, n_out, n_socks, n_mgr>>
    /\ UNCHANGED <<storeVars, chokeVars, trackerVars, swarmVars, taskVars, sideVars>>

\* Peer.download_file
NDownloadFile ==
    /\ n_mode = "off"
    /\ n_mode' = "up"
    /\ n_task' = TRUE
    /\ \E resp \in TrackerResponses(n_bm.block_size) :
          LET r == update_peers_from_tracker(
                       n_known, NewBlockManager(n_bm.block_size), resp)
          IN  n_known' = r.known /\ n_bm' = r.bm
    /\ n_ev' = Ev("download_file", NoMsg, 0)
    /\ n_sent' = {TrackerMsg("REGISTER", {}), TrackerMsg("GET_PEERS", {})}
    /\ UNCHANGED <<n_um, n_conns, n_out, n_socks, n_mgr>>
    /\ UNCHANGED <<storeVars, chokeVars, trackerVars, swarmVars, taskVars, sideVars>>

\* _manage_connections_and_requests: a tick begins; the tracker refresh and
\* the copy of known_peers_info.
NMgrTick ==
    /\ n_mode = "up"
    /\ n_mgr.pc = "sleep"
    /\ IF n_task
       THEN \E resp \in TrackerResponses(n_bm.block_size) :
               LET r == update_peers_from_tracker(n_known, n_bm, resp)
               IN  /\ n_known' = r.known
                   /\ n_bm' = r.bm
                   /\ n_mgr' = [n_mgr EXCEPT !.pc = "dial", !.todo = r.known]
       ELSE /\ UNCHANGED <<n_known, n_bm>>
            /\ n_mgr' = [n_mgr EXCEPT !.pc = "dial", !.todo = n_known]
    /\ n_ev' = Ev("tick", NoMsg, 0)
    /\ n_sent' = IF n_task THEN {TrackerMsg("GET_PEERS", {})} ELSE {}
    /\ UNCHANGED <<n_mode, n_um, n_conns, n_task, n_out, n_socks>>
    /\ UNCHANGED <<storeVars, chokeVars, trackerVars, swarmVars, taskVars, sideVars>>

\* The tick's loop over the known peers: a peer already connected, or one
\* whose connect() fails, is passed over.
NMgrDialSkip ==
    /\ n_mgr.pc = "dial"
    /\ n_mgr.todo # <<>>
    /\ n_mgr' = [n_mgr EXCEPT !.todo = Tail(@)]
    /\ n_ev' = Ev("dial_skip", NoMsg, 0)
    /\ n_sent' = {}
    /\ UNCHANGED <<n_mode, n_bm, n_um, n_conns, n_known, n_task, n_out, n_socks>>
    /\ UNCHANGED <<storeVars, chokeVars, trackerVars, swarmVars, taskVars, sideVars>>

\* _connect_to_peer up to its read_message: connect() and our handshake.
NMgrDialConnect ==
    /\ n_mgr.pc = "dial"
    /\ n_mgr.todo # <<>>
    /\ Head(n_mgr.todo) \notin DOMAIN n_conns
    /\ \E s \in SockIds :
          /\ n_socks[s].st = "free"
          /\ \A t \in SockIds : t < s => n_socks[t].st # "free"
          /\ n_socks' = [n_socks EXCEPT ![s] =
                 [NewSock EXCEPT !.st = "dialing", !.peer = Head(n_mgr.todo),
                                 !.hs_sent = TRUE]]
          /\ n_sent' = {Sent(s, Head(n_mgr.todo), HandshakeMsg(SelfId))}
          /\ n_mgr' = [n_mgr EXCEPT !.pc = "wait", !.dial = {s}]
          /\ n_ev' = Ev("dial", NoMsg, s)
    /\ UNCHANGED <<n_mode, n_bm, n_um, n_conns, n_known, n_task, n_out>>
    /\ UNCHANGED <<storeVars, chokeVars, trackerVars, swarmVars, taskVars, sideVars>>

\* A variant that takes any frame a peer sends for a handshake.
AcceptsAnyFirstFrame(msg) == msg.type # "eof"

\* if not response or response.get('type') != 'handshake'
AcceptsReply(msg) == msg.type = "handshake"

\* if msg and msg.get('type') == 'handshake'
AcceptsFirstFrame(msg) == msg.type = "handshake"

\* The frames a peer may answer our handshake with, and open a connection with.
ReplyFrames == {HandshakeMsg(p) : p \in NodePeers} \cup {EofMsg, BogusMsg}
                 \cup {[HaveMsg({}) EXCEPT !.peer_id = p] : p \in NodePeers}

\* _connect_to_peer from its read_message on.
NMgrDialReply ==
    /\ n_mgr.pc = "wait"
    /\ \E s \in n_mgr.dial, msg \in ReplyFrames :
          LET p == n_socks[s].peer
          IN  /\ n_ev' = Ev("dial_reply", msg, s)
              /\ IF AcceptsReply(msg)
                 THEN /\ n_socks' = [n_socks EXCEPT ![s].st = "loop",
                                                    ![s].first = msg.type]
                      /\ n_conns' = DictSet(n_conns, p, s)
                      /\ n_sent' = {Sent(s, p, HaveMsg(get_my_blocks(n_bm)))}
                 ELSE /\ n_socks' = [n_socks EXCEPT ![s] = ClosedSock]
                      /\ n_sent' = {}
                      /\ UNCHANGED n_conns
    /\ n_mgr' = [n_mgr EXCEPT !.pc = "dial", !.todo = Tail(@), !.dial = {}]
    /\ UNCHANGED <<n_mode, n_bm, n_um, n_known, n_task, n_out>>
    /\ UNCHANGED <<storeVars, chokeVars, trackerVars, swarmVars, taskVars, sideVars>>

\* The loop over the known peers is through: _request_blocks runs if the
\* download task is set.
NMgrDialEnd ==
    /\ n_mgr.pc = "dial"
    /\ n_mgr.todo = <<>>
    /\ n_mgr' = [n_mgr EXCEPT !.pc = IF n_task THEN "request" ELSE "sleep"]
    /\ n_ev' = Ev("dial_end", NoMsg, 0)
    /\ n_sent' = {}
    /\ UNCHANGED <<n_mode, n_bm, n_um, n_conns, n_known, n_task, n_out, n_socks>>
    /\ UNCHANGED <<storeVars, chokeVars, trackerVars, swarmVars, taskVars, sideVars>>


\* peers_with_block that are connected and have not choked us (_request_blocks)
Candidates(bm, conns, socks, b) ==
    {p \in (IF b \in DOMAIN bm.peer_block_map THEN bm.peer_block_map[b] ELSE {}) :
        p \in DOMAIN conns /\ ~socks[conns[p]].cbp}

\* _request_blocks: the (connection, peer, block) it can settle on: the first
\* block, in rarest-first order, with a candidate, and any of its candidates.
RequestChoices(bm, conns, socks) ==
    UNION { LET idx == {i \in 1..Len(order) :
                          Candidates(bm, conns, socks, order[i]) # {}}
            IN  IF idx = {} THEN {}
                ELSE LET i == CHOOSE j \in idx : \A l \in idx : j <= l
                     IN  {<<conns[p], p, order[i]>> :
                             p \in Candidates(bm, conns, socks, order[i])}
            : order \in get_rarest_missing_blocks(bm) }

\* _request_blocks up to the choice of a peer.
NMgrRequestPick ==
    /\ n_mgr.pc = "request"
    /\ n_bm' = is_complete_store(n_bm)
    /\ IF is_complete(n_bm) \/ RequestChoices(n_bm, n_conns, n_socks) = {}
       THEN n_mgr' = [n_mgr EXCEPT !.pc = "sleep"]
       ELSE \E c \in RequestChoices(n_bm, n_conns, n_socks) :
               n_mgr' = [n_mgr EXCEPT !.pc = "send", !.pick = {c}]
    /\ n_ev' = Ev("request_pick", NoMsg, 0)
    /\ n_sent' = {}
    /\ UNCHANGED <<n_mode, n_um, n_conns, n_known, n_task, n_out, n_socks>>
    /\ UNCHANGED <<storeVars, chokeVars, trackerVars, swarmVars, taskVars, sideVars>>

\* _request_blocks: send_message of the request_block on the chosen connection.
NMgrRequestSend ==
    /\ n_mgr.pc = "send"
    /\ \E c \in n_mgr.pick :
          /\ IF n_socks[c[1]].st = "loop"
             THEN /\ n_sent' = {Sent(c[1], c[2], RequestMsg(c[3]))}
                  /\ n_socks' = [n_socks EXCEPT ![c[1]].req = @ \cup {c[3]}]
             ELSE n_sent' = {} /\ UNCHANGED n_socks
          /\ n_ev' = Ev("request_send", RequestMsg(c[3]), c[1])
    /\ n_mgr' = [n_mgr EXCEPT !.pc = "sleep", !.pick = {}]
    /\ UNCHANGED <<n_mode, n_bm, n_um, n_conns, n_known, n_task, n_out>>
    /\ UNCHANGED <<storeVars, chokeVars, trackerVars, swarmVars, taskVars, sideVars>>

\* _handle_incoming_connection on an accepted socket whose first frame is msg.
NHandleIncoming ==
    /\ n_mode = "up"
    /\ \E msg \in ReplyFrames :
          IF AcceptsFirstFrame(msg)
          THEN \E s \in SockIds :
                  /\ n_socks[s].st = "free"
                  /\ \A t \in SockIds : t < s => n_socks[t].st # "free"
                  /\ n_socks' = [n_socks EXCEPT ![s] =
                         [NewSock EXCEPT !.st = "loop", !.peer = msg.peer_id,
                                         !.hs_sent = TRUE,
                                         !.first = msg.type]]
                  /\ n_conns' = DictSet(n_conns, msg.peer_id, s)
                  /\ n_sent' = {Sent(s, msg.peer_id, HandshakeMsg(SelfId)),
                                Sent(s, msg.peer_id, HaveMsg(get_my_blocks(n_bm)))}
                  /\ n_ev' = Ev("incoming", msg, s)
          ELSE /\ n_ev' = Ev("incoming", msg, 0)
               /\ n_sent' = {}
               /\ UNCHANGED <<n_socks, n_conns>>
    /\ UNCHANGED <<n_mode, n_bm, n_um, n_known, n_task, n_out, n_mgr>>
    /\ UNCHANGED <<storeVars, chokeVars, trackerVars, swarmVars, taskVars, sideVars>>

\* A connection whose _message_loop is at its read_message.
Reading(s) == n_socks[s].st = "loop" /\ n_socks[s].serve = {}

\* _message_loop: have
NRecvHave ==
    \E s \in SockIds, blocks \in SUBSET FileBlockIds(n_bm.block_size) :
       /\ Reading(s)
       /\ blocks \in Holdings(n_socks[s].peer, n_bm.block_size)
       /\ n_bm' = update_peer_blocks(n_bm, n_socks[s].peer, blocks)
       /\ n_ev' = Ev("recv", HaveMsg(blocks), s)
       /\ n_sent' = {}
       /\ UNCHANGED <<n_mode, n_um, n_conns, n_known, n_task, n_out, n_socks, n_mgr>>
       /\ UNCHANGED <<storeVars, chokeVars, trackerVars, swarmVars, taskVars, sideVars>>

\* _message_loop: request_block, up to the is_unchoked test.
NRecvRequest ==
    \E s \in SockIds, b \in FileBlockIds(n_bm.block_size) :
       /\ Reading(s)
       /\ IF is_unchoked(n_um, n_socks[s].peer)
          THEN n_socks' = [n_socks EXCEPT ![s].serve = {b}]
          ELSE UNCHANGED n_socks
       /\ n_ev' = Ev("recv", RequestMsg(b), s)
       /\ n_sent' = {}
       /\ UNCHANGED <<n_mode, n_bm, n_um, n_conns, n_known, n_task, n_out, n_mgr>>
       /\ UNCHANGED <<storeVars, chokeVars, trackerVars, swarmVars, taskVars, sideVars>>

\* _message_loop: request_block, from get_block_data on.
NServe ==
    \E s \in SockIds :
       /\ n_socks[s].st = "loop"
       /\ n_socks[s].serve # {}
       /\ \E b \in n_socks[s].serve :
             /\ IF Truthy(get_block_data(n_bm, b))
                THEN n_sent' = {Sent(s, n_socks[s].peer,
                                     BlockDataMsg(b, Hex(get_block_data(n_bm, b))))}
                ELSE n_sent' = {}
             /\ n_ev' = Ev("serve", RequestMsg(b), s)
       /\ n_socks' = [n_socks EXCEPT ![s].serve = {}]
       /\ UNCHANGED <<n_mode, n_bm, n_um, n_conns, n_known, n_task, n_out, n_mgr>>
       /\ UNCHANGED <<storeVars, chokeVars, trackerVars, swarmVars, taskVars, sideVars>>

\* A variant of _broadcast_have_update that tells only the peers that lack
\* one of our blocks.
BroadcastHaveToInterested(bm, conns, socks) ==
    {Sent(conns[p], p, HaveMsg(get_my_blocks(bm))) :
        p \in {q \in DOMAIN conns :
                 /\ socks[conns[q]].st = "loop"
                 /\ ~(get_my_blocks(bm) \subseteq get_peer_blocks(bm, q))}}
    \cup {TrackerMsg("UPDATE_BLOCKS", get_my_blocks(bm))}

\* _broadcast_have_update: the have sent on every registered connection that
\* is still connected, then _update_tracker_blocks.
BroadcastHave(bm, conns, socks) ==
    {Sent(conns[p], p, HaveMsg(get_my_blocks(bm))) :
        p \in {q \in DOMAIN conns : socks[conns[q]].st = "loop"}}
    \cup {TrackerMsg("UPDATE_BLOCKS", get_my_blocks(bm))}

\* _message_loop: block_data.  A peer delivers a block we asked it for, with
\* the file's bytes.
NRecvBlockData ==
    \E s \in SockIds :
       /\ Reading(s)
       /\ \E b \in n_socks[s].req :
             LET msg == BlockDataMsg(b, Hex(FileBlocks(n_bm.block_size)[b]))
                 r   == add_block(n_bm, msg.block_id, FromHex(msg.data))
             IN  /\ n_ev' = Ev("recv", msg, s)
                 /\ n_socks' = [n_socks EXCEPT ![s].req = @ \ {b}]
                 /\ IF r.ret
                    THEN /\ n_sent' = BroadcastHave(r.bm, n_conns, n_socks)
                         /\ n_bm' = is_complete_store(r.bm)
                         /\ IF is_complete(r.bm)
                            THEN n_out' = reconstruct_file(r.bm) /\ n_task' = FALSE
                            ELSE UNCHANGED <<n_out, n_task>>
                    ELSE /\ n_sent' = {}
                         /\ UNCHANGED <<n_bm, n_out, n_task>>
       /\ UNCHANGED <<n_mode, n_um, n_conns, n_known, n_mgr>>
       /\ UNCHANGED <<storeVars, chokeVars, trackerVars, swarmVars, taskVars, sideVars>>

\* _message_loop: choke and unchoke
NRecvChoke ==
    \E s \in SockIds, msg \in {ChokeMsg, UnchokeMsg} :
       /\ Reading(s)
       /\ n_socks' = [n_socks EXCEPT ![s].cbp = (msg.type = "choke")]
       /\ n_ev' = Ev("recv", msg, s)
       /\ n_sent' = {}
       /\ UNCHANGED <<n_mode, n_bm, n_um, n_conns, n_known, n_task, n_out, n_mgr>>
       /\ UNCHANGED <<storeVars, chokeVars, trackerVars, swarmVars, taskVars, sideVars>>

\* _message_loop: a frame of any other type matches no branch.
NRecvOther ==
    \E s \in SockIds :
       /\ Reading(s)
       /\ n_ev' = Ev("recv", BogusMsg, s)
       /\ n_sent' = {}
       /\ UNCHANGED <<n_mode, n_bm, n_um, n_conns, n_known, n_task, n_out, n_socks,
                      n_mgr>>
       /\ UNCHANGED <<storeVars, chokeVars, trackerVars, swarmVars, taskVars, sideVars>>

\* _message_loop: read_message returns None; the loop ends and the cleanup runs.
NRecvEof ==
    \E s \in SockIds :
       /\ Reading(s)
       /\ n_socks' = [n_socks EXCEPT ![s] = ClosedSock]
       /\ n_conns' = DictRemove(n_conns, n_socks[s].peer)
       /\ n_known' = SeqRemove(n_known, n_socks[s].peer)
       /\ n_bm' = remove_peer_blocks(n_bm, n_socks[s].peer)
       /\ n_um' = unregister_peer(n_um, n_socks[s].peer)
       /\ n_ev' = Ev("recv", EofMsg, s)
       /\ n_sent' = {}
       /\ UNCHANGED <<n_mode, n_task, n_out, n_mgr>>
       /\ UNCHANGED <<storeVars, chokeVars, trackerVars, swarmVars, taskVars, sideVars>>

\* _run_unchoke_logic: the peers that lack a block we hold.
Interested(bm, conns) ==
    {p \in DOMAIN conns : ~(get_my_blocks(bm) \subseteq get_peer_blocks(bm, p))}

\* The connections after the frames in `sent` went out: each remembers the
\* choke or unchoke it carried last.
Told(socks, sent) ==
    [s \in SockIds |->
        IF \E m \in sent : m.sock = s /\ m.msg.type = "choke"
        THEN [socks[s] EXCEPT !.cbu = TRUE]
        ELSE IF \E m \in sent : m.sock = s /\ m.msg.type = "unchoke"
             THEN [socks[s] EXCEPT !.cbu = FALSE]
             ELSE socks[s]]

\* _run_unchoke_logic: one round.
NChokeTick ==
    /\ n_mode = "up"
    /\ IF Interested(n_bm, n_conns) = {}
       THEN n_sent' = {} /\ UNCHANGED n_um
       ELSE \E r \in evaluate_peers(n_um, SortedByIndex(Interested(n_bm, n_conns))) :
               /\ n_um' = r.um
               /\ n_sent' =
                    {Sent(n_conns[p], p, UnchokeMsg) :
                        p \in {q \in r.to_unchoke \cap DOMAIN n_conns :
                                 n_socks[n_conns[q]].st = "loop"}}
                    \cup
                    {Sent(n_conns[p], p, ChokeMsg) :
                        p \in {q \in r.to_choke \cap DOMAIN n_conns :
                                 n_socks[n_conns[q]].st = "loop"}}
    /\ n_socks' = Told(n_socks, n_sent')
    /\ n_ev' = Ev("choke_tick", NoMsg, 0)
    /\ UNCHANGED <<n_mode, n_bm, n_conns, n_known, n_task, n_out, n_mgr>>
    /\ UNCHANGED <<storeVars, chokeVars, trackerVars, swarmVars, taskVars, sideVars>>

NNext ==
    \/ NShareFile
    \/ NDownloadFile
    \/ NMgrTick
    \/ NMgrDialSkip
    \/ NMgrDialConnect
    \/ NMgrDialReply
    \/ NMgrDialEnd
    \/ NMgrRequestPick
    \/ NMgrRequestSend
    \/ NHandleIncoming
    \/ NRecvHave
    \/ NRecvRequest
    \/ NServe
    \/ NRecvBlockData
    \/ NRecvChoke
    \/ NRecvOther
    \/ NRecvEof
    \/ NChokeTick

NIdle ==
    /\ n_mode = "idle"
    /\ n_bm = NewBlockManager(1)
    /\ n_um = NewUnchokeManager
    /\ n_conns = EmptyDict
    /\ n_known = <<>>
    /\ n_task = FALSE
    /\ n_out = None
    /\ n_socks = [s \in SockIds |-> NewSock]
    /\ n_mgr = [pc |-> "sleep", todo |-> <<>>, dial |-> {}, pick |-> {}]
    /\ n_ev = Ev("idle", NoMsg, 0)
    /\ n_sent = {}

\* =========================================================================
\* Tracker (src/minibit/tracker.py)
\* =========================================================================
\* self.files: {file_name: {peer_id: (ip, port, {block_ids})}}; the address
\* (ip, port) is one value of the model.
NewTracker == EmptyDict

\* A command as the tracker decodes it.
Cmd(command, peer_id, file_name, address, blocks) ==
    [command |-> command, peer_id |-> peer_id, file_name |-> file_name,
     address |-> address, blocks |-> blocks]

\* A response: the status and, for GET_PEERS, the list of peers.
Response(status, peers) == [status |-> status, peers |-> peers]

\* One entry of a GET_PEERS response.
PeerEntry(all_peers, pid) ==
    [peer_id |-> pid, address |-> all_peers[pid].address,
     blocks |-> all_peers[pid].blocks]

\* The list of entries of the selected peers.  The order of the list (the
\* dict's insertion order, or the order random.sample drew) is not modelled:
\* the entries come in ascending order of peer_id.
PeersList(all_peers, selected) ==
    LET order == SortedByIndex(selected)
    IN  [i \in 1..Len(order) |-> PeerEntry(all_peers, order[i])]

\* Variant: the requester is not filtered out of the peers considered.
other_peers_with_self(all_peers, peer_id) == DOMAIN all_peers

\* other_peers = {pid: pinfo for pid, pinfo in all_peers.items() if pid != peer_id}
other_peers(all_peers, peer_id) == DOMAIN all_peers \ {peer_id}

\* The selections GET_PEERS can make: every other peer when there are fewer
\* than five, otherwise any sample of five of them.
selected_peers(all_peers, peer_id) ==
    LET others == other_peers(all_peers, peer_id)
    IN  IF Cardinality(others) < MAX_PEERS_LISTED
        THEN {others}
        ELSE {sel \in SUBSET others : Cardinality(sel) = MAX_PEERS_LISTED}

\* A variant of _process_command whose UPDATE_BLOCKS registers a peer that
\* is not registered under the file, with the address the command carries.
process_command_upsert(files, m) ==
    CASE m.command = "REGISTER" ->
           LET base == IF m.file_name \in DOMAIN files
                       THEN files[m.file_name] ELSE EmptyDict
               info == [address |-> m.address, blocks |-> m.blocks]
           IN  {[files |-> DictSet(files, m.file_name,
                                   DictSet(base, m.peer_id, info)),
                 response |-> Response("ok", <<>>)]}
      [] m.command = "GET_PEERS" ->
           IF m.file_name \in DOMAIN files
           THEN {[files |-> files,
                  response |-> Response("ok",
                                  PeersList(files[m.file_name], sel))] :
                   sel \in selected_peers(files[m.file_name], m.peer_id)}
           ELSE {[files |-> files, response |-> Response("ok", <<>>)]}
      [] m.command = "UPDATE_BLOCKS" ->
           LET base == IF m.file_name \in DOMAIN files
                       THEN files[m.file_name] ELSE EmptyDict
               addr == IF m.peer_id \in DOMAIN base
                       THEN base[m.peer_id].address ELSE m.address
               info == [address |-> addr, blocks |-> m.blocks]
           IN  {[files |-> DictSet(files, m.file_name,
                                   DictSet(base, m.peer_id, info)),
                 response |-> Response("ok", <<>>)]}
      [] OTHER -> {[files |-> files, response |-> Response("error", <<>>)]}

\* _process_command: the set of outcomes [files, response] of one command.
process_command(files, m) ==
    CASE m.command = "REGISTER" ->
           LET base == IF m.file_name \in DOMAIN files
                       THEN files[m.file_name] ELSE EmptyDict
               info == [address |-> m.address, blocks |-> m.blocks]
           IN  {[files |-> DictSet(files, m.file_name,
                                   DictSet(base, m.peer_id, info)),
                 response |-> Response("ok", <<>>)]}
      [] m.command = "GET_PEERS" ->
           IF m.file_name \in DOMAIN files
           THEN {[files |-> files,
                  response |-> Response("ok",
                                  PeersList(files[m.file_name], sel))] :
                   sel \in selected_peers(files[m.file_name], m.peer_id)}
           ELSE {[files |-> files, response |-> Response("ok", <<>>)]}
      [] m.command = "UPDATE_BLOCKS" ->
           IF /\ m.file_name \in DOMAIN files
              /\ m.peer_id \in DOMAIN files[m.file_name]
           THEN LET old == files[m.file_name][m.peer_id]
                    info == [address |-> old.address, blocks |-> m.blocks]
                IN  {[files |-> DictSet(files, m.file_name,
                                  DictSet(files[m.file_name], m.peer_id, info)),
                      response |-> Response("ok", <<>>)]}
           ELSE {[files |-> files, response |-> Response("error", <<>>)]}
      [] OTHER -> {[files |-> files, response |-> Response("error", <<>>)]}

\* Is peer_id registered under file_name?
Registered(files, file_name, peer_id) ==
    /\ file_name \in DOMAIN files
    /\ peer_id \in DOMAIN files[file_name]

\* -------------------------------------------------------------------------
\* The tracker alone, serving the commands of a bounded set of peers.
\* -------------------------------------------------------------------------
TrackerPeers == 1..NumTrackerPeers
TrackerFiles == {"a.bin", "b.bin"}
\* The addresses a peer registers with: peer 1 restarts on a second port
\* while sharing the first file.
TrackerAddrs(f, p) ==
    IF p = 1 /\ f = "a.bin" THEN {<<p, 1>>, <<p, 2>>} ELSE {<<p, 1>>}
\* The block sets a peer reports: peer 1 downloads the first file, the
\* others hold block 0.
TrackerBlockSets(f, p) ==
    IF p = 1 /\ f = "a.bin" THEN {{}, {0}} ELSE {{0}}
\* The peers that take part in a file's swarm: everyone for the first file,
\* peer 1 alone for the second.
TrackerSwarm(f) == IF f = "a.bin" THEN TrackerPeers ELSE {1}
\* Commands the tracker does not implement.
OtherCommands == {"REMOVE", "PING"}

NoCmd == Cmd("", NoPeer, "", <<>>, {})

TKCall(m, before, response) ==
    [msg |-> m, before |-> before, response |-> response]

TKInit ==
    /\ tk = NewTracker
    /\ tk_last = TKCall(NoCmd, NewTracker, Response("", <<>>))

\* One connection to the tracker: a command is read, processed and answered.
TKHandle(m) ==
    \E out \in process_command(tk, m) :
        /\ tk' = out.files
        /\ tk_last' = TKCall(m, tk, out.response)

TKRegister ==
    /\ \E f \in TrackerFiles : \E p \in TrackerSwarm(f) :
         \E a \in TrackerAddrs(f, p) : \E bl \in TrackerBlockSets(f, p) :
            TKHandle(Cmd("REGISTER", p, f, a, bl))
    /\ UNCHANGED <<storeVars, chokeVars, nodeVars, swarmVars, taskVars, sideVars>>

TKGetPeers ==
    /\ \E f \in TrackerFiles : \E p \in TrackerPeers :
            TKHandle(Cmd("GET_PEERS", p, f, <<>>, {}))
    /\ UNCHANGED <<storeVars, chokeVars, nodeVars, swarmVars, taskVars, sideVars>>

TKUpdateBlocks ==
    /\ \E f \in TrackerFiles : \E p \in TrackerSwarm("a.bin") :
         \E bl \in TrackerBlockSets(f, p) :
            TKHandle(Cmd("UPDATE_BLOCKS", p, f, <<>>, bl))
    /\ UNCHANGED <<storeVars, chokeVars, nodeVars, swarmVars, taskVars, sideVars>>

TKOtherCommand ==
    /\ \E c \in OtherCommands : \E p \in {1, 2} :
            TKHandle(Cmd(c, p, "a.bin", <<>>, {}))
    /\ UNCHANGED <<storeVars, chokeVars, nodeVars, swarmVars, taskVars, sideVars>>

\* A variant of _remove_peer that stops at the first file the peer is found in.
remove_peer_first_file(files, peer_id) ==
    LET found == {f \in DOMAIN files : peer_id \in DOMAIN files[f]}
    IN  IF found = {} THEN files
        ELSE LET f == CHOOSE g \in found : TRUE
             IN  DictSet(files, f, DictRemove(files[f], peer_id))

\* Tracker._remove_peer
remove_peer(files, peer_id) ==
    [f \in DOMAIN files |-> DictRemove(files[f], peer_id)]

\* The error handlers of _handle_client: if peer_id_for_session
evict(files, peer_id) ==
    IF peer_id # NoPeer THEN remove_peer(files, peer_id) ELSE files

\* The peers whose connections to the tracker fail.
TrackerFailPeers == {1, 2}

\* _handle_client: the command is processed and sendall of the response
\* raises (connection reset, broken pipe).
TKSendFails ==
    /\ \E f \in TrackerFiles : \E p \in TrackerFailPeers \cap TrackerSwarm(f) :
         \E m \in {Cmd("REGISTER", p, f, <<p, 1>>, {0}),
                    Cmd("GET_PEERS", p, f, <<>>, {}),
                    Cmd("PING", p, f, <<>>, {})} :
            \E out \in process_command(tk, m) :
               /\ tk' = evict(out.files, m.peer_id)
               /\ tk_last' = TKCall(m, tk, Response("lost", <<>>))
    /\ UNCHANGED <<storeVars, chokeVars, nodeVars, swarmVars, taskVars, sideVars>>

\* _handle_client: the request lacks a field its command reads (file_name,
\* address or blocks); _process_command raises KeyError before it writes.
TKMissingField ==
    /\ \E c \in {"REGISTER", "GET_PEERS", "UPDATE_BLOCKS"} :
         \E p \in TrackerFailPeers \cup {NoPeer} :
            /\ tk' = evict(tk, p)
            /\ tk_last' = TKCall(Cmd(c, p, "", <<>>, {}), tk,
                                 Response("raised", <<>>))
    /\ UNCHANGED <<storeVars, chokeVars, nodeVars, swarmVars, taskVars, sideVars>>

\* _handle_client: the connection ends, or fails, before a request was
\* parsed: peer_id_for_session is still None.
TKUnread ==
    /\ tk' = tk
    /\ tk_last' = TKCall(NoCmd, tk, Response("unread", <<>>))
    /\ UNCHANGED <<storeVars, chokeVars, nodeVars, swarmVars, taskVars, sideVars>>

TKNext == TKRegister \/ TKGetPeers \/ TKUpdateBlocks \/ TKOtherCommand

\* The tracker with connections that fail as well.
TKFaultNext ==
    \/ TKRegister
    \/ TKGetPeers
    \/ TKUpdateBlocks
    \/ TKOtherCommand
    \/ TKSendFails
    \/ TKMissingField
    \/ TKUnread

TKIdle ==
    /\ tk = NewTracker
    /\ tk_last = TKCall(NoCmd, NewTracker, Response("", <<>>))

\* =========================================================================
\* Swarm: one tracker, one seeder and one leecher, with the TCP connections
\* between the two peers.  Each periodic task and each connection's reader
\* takes its steps between the steps of the others.  Nothing fails: the
\* tracker answers every command, connect() succeeds whenever the other peer
\* listens, and no frame is lost.
\* =========================================================================
WSeeder    == 1
WLeecher   == 2
WPeers     == {WSeeder, WLeecher}
WFile      == "a.bin"
WBlockSize == 2
WAddr(p)   == <<p, 1>>
LinkIds    == 1..NumLinks

\* A Peer object: mode is "new" until share_file or download_file ran.
NewNode ==
    [mode |-> "new", bm |-> NewBlockManager(WBlockSize),
     um |-> NewUnchokeManager, conns |-> EmptyDict, known |-> <<>>,
     task |-> FALSE, out |-> None]

\* One end of a connection: a PeerConnection with the reader that runs
\* _message_loop on it, and the frames sent to it and not yet read.
NewEnd == [st |-> "dead", cbp |-> TRUE, inbox |-> <<>>]
OpenEnd(first) == [st |-> "loop", cbp |-> TRUE, inbox |-> <<first>>]

\* A TCP connection: d is the end of the peer that dialled, a the end of the
\* peer that accepted.  A connection closed at both ends is forgotten.
NewLink == [dialer |-> NoPeer, acceptor |-> NoPeer, d |-> NewEnd, a |-> NewEnd]

Side(link, p)  == IF link.dialer = p THEN "d" ELSE "a"
Other(side)    == IF side = "d" THEN "a" ELSE "d"
PartyAt(link, side) == IF side = "d" THEN link.dialer ELSE link.acceptor

\* sendall: the frame joins what the other end has to read, unless that end
\* is closed.
Push(links, l, side, msg) ==
    IF links[l][side].st = "loop"
    THEN [links EXCEPT ![l][side].inbox = Append(@, msg)]
    ELSE links

\* PeerConnection.send_message of `self` on its connection l.
SendOn(links, self, l, msg) ==
    IF links[l][Side(links[l], self)].st = "loop"
    THEN Push(links, l, Other(Side(links[l], self)), msg)
    ELSE links

\* send_message on every connection of self.connections
RECURSIVE SendAll(_, _, _, _, _)
SendAll(links, self, conns, peers, msg) ==
    IF peers = {} THEN links
    ELSE LET p == CHOOSE q \in peers : TRUE
         IN  SendAll(SendOn(links, self, conns[p], msg), self, conns,
                     peers \ {p}, msg)

\* PeerConnection.close
CloseEnd(links, l, side) ==
    IF links[l][Other(side)].st = "dead"
    THEN [links EXCEPT ![l] = NewLink]
    ELSE [links EXCEPT ![l][side] = NewEnd]

\* The connections of a peer as _request_blocks reads them.
EndsOf(links, self) ==
    [l \in DOMAIN links |-> links[l][Side(links[l], self)]]

\* No connection carries more than MaxInFlight unread frames.
InFlightOk(links) ==
    \A l \in DOMAIN links :
        Len(links[l].d.inbox) + Len(links[l].a.inbox) <= MaxInFlight

\* Peer._update_peers_from_tracker of peer `self` on a reply listing `peers`.
RECURSIVE UpdatePeersOf(_, _, _, _)
UpdatePeersOf(self, known, bm, peers) ==
    IF peers = <<>> THEN [known |-> known, bm |-> bm]
    ELSE LET info == Head(peers)
         IN  IF info.peer_id # self /\ info.peer_id \notin Range(known)
             THEN UpdatePeersOf(self, Append(known, info.peer_id),
                      update_peer_blocks(bm, info.peer_id, info.blocks),
                      Tail(peers))
             ELSE UpdatePeersOf(self, known, bm, Tail(peers))

\* The end of _message_loop: the cleanup of the connection to `peer`.
Cleanup(node, peer) ==
    [node EXCEPT !.conns = IF peer \in DOMAIN @ THEN DictRemove(@, peer) ELSE @,
                 !.known = SeqRemove(@, peer),
                 !.bm    = remove_peer_blocks(@, peer),
                 !.um    = unregister_peer(@, peer)]

WInit ==
    /\ w_node = [p \in WPeers |-> NewNode]
    /\ w_link = [l \in LinkIds |-> NewLink]
    /\ tk = NewTracker
    /\ tk_last = TKCall(NoCmd, NewTracker, Response("", <<>>))

\* Peer.start and Peer.share_file on the seeder
WShareFile ==
    /\ w_node[WSeeder].mode = "new"
    /\ LET bm == load_from_file(NewBlockManager(WBlockSize), NodeFile)
       IN  /\ \E reg \in process_command(tk,
                   Cmd("REGISTER", WSeeder, WFile, WAddr(WSeeder),
                       get_my_blocks(bm))) :
                  tk' = reg.files
           /\ w_node' = [w_node EXCEPT ![WSeeder].mode = "up",
                                       ![WSeeder].bm = bm]
    /\ UNCHANGED <<w_link, tk_last>>
    /\ UNCHANGED <<storeVars, chokeVars, nodeVars, taskVars, sideVars>>

\* Peer.start and Peer.download_file on peer `self`
DownloadFile(self) ==
    /\ w_node[self].mode = "new"
    /\ \E reg \in process_command(tk,
            Cmd("REGISTER", self, WFile, WAddr(self), {})) :
         \E got \in process_command(reg.files,
               Cmd("GET_PEERS", self, WFile, <<>>, {})) :
            LET r == UpdatePeersOf(self, <<>>, NewBlockManager(WBlockSize),
                                   got.response.peers)
            IN  /\ tk' = got.files
                /\ w_node' = [w_node EXCEPT ![self].mode = "up",
                                            ![self].task = TRUE,
                                            ![self].known = r.known,
                                            ![self].bm = r.bm]
    /\ UNCHANGED <<w_link, tk_last>>

\* Peer.start and Peer.download_file on the leecher
WDownloadFile ==
    /\ DownloadFile(WLeecher)
    /\ UNCHANGED <<storeVars, chokeVars, nodeVars, taskVars, sideVars>>

\* _connect_to_peer of `self` to q with the other side's
\* _handle_incoming_connection: the handshakes cross, both peers register the
\* connection, send their have and start reading.  nodes and links are the
\* state the tick has produced so far.
Dial(nodes, links, self, q) ==
    IF q \in DOMAIN nodes[self].conns \/ nodes[q].mode # "up"
    THEN [nodes |-> nodes, links |-> links]
    ELSE LET l == CHOOSE i \in DOMAIN links :
                     /\ links[i] = NewLink
                     /\ \A j \in DOMAIN links : j < i => links[j] # NewLink
         IN  [nodes |-> [nodes EXCEPT ![self].conns = DictSet(@, q, l),
                                      ![q].conns = DictSet(@, self, l)],
              links |-> [links EXCEPT ![l] =
                 [dialer |-> self, acceptor |-> q,
                  d |-> OpenEnd(HaveMsg(get_my_blocks(nodes[q].bm))),
                  a |-> OpenEnd(HaveMsg(get_my_blocks(nodes[self].bm)))]]]

\* The loop of _manage_connections_and_requests over the known peers, in the
\* order of known_peers_info.
RECURSIVE DialAll(_, _, _, _)
DialAll(nodes, links, self, peers) ==
    IF peers = <<>> THEN [nodes |-> nodes, links |-> links]
    ELSE LET dl == Dial(nodes, links, self, Head(peers))
         IN  DialAll(dl.nodes, dl.links, self, Tail(peers))

\* _request_blocks of `self`: the states it can leave the connections in.
RequestBlocks(nodes, links, self) ==
    LET n       == nodes[self]
        choices == RequestChoices(n.bm, n.conns, EndsOf(links, self))
    IN  IF is_complete(n.bm) \/ choices = {}
        THEN {links}
        ELSE {SendOn(links, self, c[1], RequestMsg(c[3])) : c \in choices}

\* _manage_connections_and_requests: the states one round of peer `self` can
\* leave the peers and the connections in.
MgrTickOutcomes(nodes, links, files, self) ==
    UNION {
      LET r      == UpdatePeersOf(self, nodes[self].known, nodes[self].bm,
                                  got.response.peers)
          nodes1 == [nodes EXCEPT ![self].known = r.known, ![self].bm = r.bm]
          todo   == Range(r.known) \ DOMAIN nodes[self].conns
      IN  IF Cardinality({i \in DOMAIN links : links[i] = NewLink})
                < Cardinality(todo)
          THEN {}
          ELSE LET dl     == DialAll(nodes1, links, self, r.known)
                   nodes2 == [dl.nodes EXCEPT
                                ![self].bm = IF dl.nodes[self].task
                                             THEN is_complete_store(@) ELSE @]
               IN  {[nodes |-> nodes2, links |-> links3] :
                      links3 \in {x \in (IF dl.nodes[self].task
                                         THEN RequestBlocks(dl.nodes, dl.links, self)
                                         ELSE {dl.links}) : InFlightOk(x)}}
      : got \in (IF nodes[self].task
                 THEN process_command(files, Cmd("GET_PEERS", self, WFile, <<>>, {}))
                 ELSE {[files |-> files, response |-> Response("ok", <<>>)]}) }

\* _manage_connections_and_requests: one round of peer `self`.
WMgrTick(self) ==
    /\ w_node[self].mode = "up"
    /\ \E r \in MgrTickOutcomes(w_node, w_link, tk, self) :
          /\ w_node' = r.nodes
          /\ w_link' = r.links
    /\ UNCHANGED <<tk, tk_last>>
    /\ UNCHANGED <<storeVars, chokeVars, nodeVars, taskVars, sideVars>>

\* _message_loop of the reader at end `side` of connection l: one frame.
WRecv(l, side) ==
    /\ w_link[l][side].st = "loop"
    /\ w_link[l][side].inbox # <<>>
    /\ LET self   == PartyAt(w_link[l], side)
           peer   == PartyAt(w_link[l], Other(side))
           msg    == Head(w_link[l][side].inbox)
           links1 == [w_link EXCEPT ![l][side].inbox = Tail(@)]
           n      == w_node[self]
       IN  CASE msg.type = "have" ->
                  /\ w_node' = [w_node EXCEPT ![self].bm =
                                   update_peer_blocks(@, peer, msg.blocks)]
                  /\ w_link' = links1
                  /\ UNCHANGED tk
             [] msg.type = "request_block" ->
                  /\ w_link' =
                       IF /\ is_unchoked(n.um, peer)
                          /\ Truthy(get_block_data(n.bm, msg.block_id))
                       THEN SendOn(links1, self, l,
                               BlockDataMsg(msg.block_id,
                                   Hex(get_block_data(n.bm, msg.block_id))))
                       ELSE links1
                  /\ UNCHANGED <<w_node, tk>>
             [] msg.type = "block_data" ->
                  LET r == add_block(n.bm, msg.block_id, FromHex(msg.data))
                  IN  IF r.ret
                      THEN /\ w_link' = SendAll(links1, self, n.conns,
                                           DOMAIN n.conns,
                                           HaveMsg(get_my_blocks(r.bm)))
                           /\ \E upd \in process_command(tk,
                                  Cmd("UPDATE_BLOCKS", self, WFile, <<>>,
                                      get_my_blocks(r.bm))) :
                                 tk' = upd.files
                           /\ w_node' = [w_node EXCEPT
                                 ![self].bm = is_complete_store(r.bm),
                                 ![self].out = IF is_complete(r.bm)
                                               THEN reconstruct_file(r.bm) ELSE @,
                                 ![self].task = IF is_complete(r.bm)
                                                THEN FALSE ELSE @]
                      ELSE /\ w_link' = links1
                           /\ UNCHANGED <<w_node, tk>>
             [] msg.type \in {"choke", "unchoke"} ->
                  /\ w_link' = [links1 EXCEPT ![l][side].cbp = (msg.type = "choke")]
                  /\ UNCHANGED <<w_node, tk>>
             [] OTHER ->
                  /\ w_link' = links1
                  /\ UNCHANGED <<w_node, tk>>
    /\ UNCHANGED tk_last
    /\ UNCHANGED <<storeVars, chokeVars, nodeVars, taskVars, sideVars>>

\* _message_loop: read_message returns None because the other end was closed
\* and nothing is left to read; the loop ends and the cleanup runs.
WReadEof(l, side) ==
    /\ w_link[l][side].st = "loop"
    /\ w_link[l][side].inbox = <<>>
    /\ w_link[l][Other(side)].st = "dead"
    /\ w_node' = [w_node EXCEPT ![PartyAt(w_link[l], side)] =
                     Cleanup(@, PartyAt(w_link[l], Other(side)))]
    /\ w_link' = CloseEnd(w_link, l, side)
    /\ UNCHANGED <<tk, tk_last>>
    /\ UNCHANGED <<storeVars, chokeVars, nodeVars, taskVars, sideVars>>

\* _message_loop on a socket this peer dialled: connect() left the socket
\* with settimeout(5), so a recv that waits five seconds raises socket.timeout
\* (an OSError); read_message closes the connection and returns None, the loop
\* ends and the cleanup runs.
WReadTimeout(l) ==
    /\ w_link[l].d.st = "loop"
    /\ w_link[l].d.inbox = <<>>
    /\ w_link[l].a.st = "loop"
    /\ w_node' = [w_node EXCEPT ![w_link[l].dialer] =
                     Cleanup(@, w_link[l].acceptor)]
    /\ w_link' = CloseEnd(w_link, l, "d")
    /\ UNCHANGED <<tk, tk_last>>
    /\ UNCHANGED <<storeVars, chokeVars, nodeVars, taskVars, sideVars>>

\* _run_unchoke_logic: one round of peer `self`.
WChokeTick(self) ==
    /\ w_node[self].mode = "up"
    /\ Interested(w_node[self].bm, w_node[self].conns) # {}
    /\ \E r \in evaluate_peers(w_node[self].um,
                   SortedByIndex(Interested(w_node[self].bm, w_node[self].conns))) :
          /\ w_node' = [w_node EXCEPT ![self].um = r.um]
          /\ w_link' = SendAll(
                          SendAll(w_link, self, w_node[self].conns,
                                  r.to_unchoke \cap DOMAIN w_node[self].conns,
                                  UnchokeMsg),
                          self, w_node[self].conns,
                          r.to_choke \cap DOMAIN w_node[self].conns, ChokeMsg)
          /\ InFlightOk(w_link')
    /\ UNCHANGED <<tk, tk_last>>
    /\ UNCHANGED <<storeVars, chokeVars, nodeVars, taskVars, sideVars>>

WMgrTickAny   == \E p \in DOMAIN w_node : WMgrTick(p)
WChokeTickAny == \E p \in DOMAIN w_node : WChokeTick(p)
WRecvAny      == \E l \in DOMAIN w_link : \E side \in {"d", "a"} : WRecv(l, side)
WReadEofAny   ==
    \E l \in DOMAIN w_link : \E side \in {"d", "a"} : WReadEof(l, side)
WReadTimeoutAny == \E l \in DOMAIN w_link : WReadTimeout(l)

WNext ==
    \/ WShareFile
    \/ WDownloadFile
    \/ WMgrTickAny
    \/ WChokeTickAny
    \/ WRecvAny
    \/ WReadEofAny
    \/ WReadTimeoutAny

\* Both peers are started, every periodic task keeps running and every
\* reader keeps reading what was sent to it.
WFairness ==
    /\ WF_vars(WShareFile)
    /\ WF_vars(WDownloadFile)
    /\ \A p \in WPeers : WF_vars(WMgrTick(p)) /\ WF_vars(WChokeTick(p))
    /\ \A l \in LinkIds : \A side \in {"d", "a"} :
          WF_vars(WRecv(l, side)) /\ WF_vars(WReadEof(l, side))

WIdle ==
    /\ w_node = [p \in WPeers |-> NewNode]
    /\ w_link = [l \in LinkIds |-> NewLink]

\* -------------------------------------------------------------------------
\* The swarm with a second leecher: one seeder and two leechers, each peer
\* connecting to the other two.  The readers are fast and the periodic tasks
\* slow: a reader handles a frame, or the end of its stream, as soon as it is
\* there, while a manager round comes after a sleep of five seconds, a choke
\* round after ten, and a read times out after five seconds of silence.  So
\* a round or a timeout finds every frame sent before it already handled.
\* -------------------------------------------------------------------------
WLeecherB == 3
W3Peers   == {WSeeder, WLeecher, WLeecherB}
W3LinkIds == 1..NumLinks3

W3Init ==
    /\ w_node = [p \in W3Peers |-> NewNode]
    /\ w_link = [l \in W3LinkIds |-> NewLink]
    /\ tk = NewTracker
    /\ tk_last = TKCall(NoCmd, NewTracker, Response("", <<>>))

\* Peer.start and Peer.download_file on the second leecher
WDownloadFileB ==
    /\ DownloadFile(WLeecherB)
    /\ UNCHANGED <<storeVars, chokeVars, nodeVars, taskVars, sideVars>>

\* No reader has a frame or an end of stream to handle.
Quiet(links) ==
    \A l \in DOMAIN links :
       /\ links[l].d.inbox = <<>>
       /\ links[l].a.inbox = <<>>
       /\ links[l].d.st = "dead" <=> links[l].a.st = "dead"

\* A round of the manager of peer `self` would change something.
MgrTickEnabled(self) ==
    /\ w_node[self].mode = "up"
    /\ \E r \in MgrTickOutcomes(w_node, w_link, tk, self) :
          <<r.nodes, r.links>> # <<w_node, w_link>>

\* The rounds of the periodic tasks and the read timeout, after their sleep.
W3MgrTick(self)   == Quiet(w_link) /\ WMgrTick(self)
W3ChokeTick(self) == Quiet(w_link) /\ WChokeTick(self)
W3ReadTimeout(l)  == Quiet(w_link) /\ WReadTimeout(l)

W3MgrTickAny     == \E p \in W3Peers : W3MgrTick(p)
W3ChokeTickAny   == \E p \in W3Peers : W3ChokeTick(p)
W3ReadTimeoutAny == \E l \in W3LinkIds : W3ReadTimeout(l)

W3Next ==
    \/ WShareFile
    \/ WDownloadFile
    \/ WDownloadFileB
    \/ W3MgrTickAny
    \/ W3ChokeTickAny
    \/ WRecvAny
    \/ WReadEofAny
    \/ W3ReadTimeoutAny

\* Some reader has a frame or an end of stream to handle, and handles it.
W3Reader == WRecvAny \/ WReadEofAny

\* A peer not started yet is started.
W3Start == WShareFile \/ WDownloadFile \/ WDownloadFileB

\* SF_vars(W3MgrTick(self)), with ENABLED <<W3MgrTick(self)>>_vars written
\* as the state predicate it is.
W3MgrTickFair(self) ==
    \/ <>[]~(Quiet(w_link) /\ MgrTickEnabled(self))
    \/ []<><<W3MgrTick(self)>>_vars

\* The three peers are started, the readers keep reading what was sent to
\* them, and every periodic task keeps running: a task whose round is
\* possible again and again runs it again and again.
W3Fairness ==
    /\ WF_vars(W3Start)
    /\ WF_vars(W3Reader)
    /\ \A p \in W3Peers : W3MgrTickFair(p) /\ SF_vars(W3ChokeTick(p))

\* =========================================================================
\* The tasks of one Peer at the grain of their BlockManager calls: the
\* readers of two connections and the manager run as threads, BlockManager
\* has no lock, and a thread can be switched out between two statements of a
\* method.  Each reader handles block_data, have and the end of its
\* connection; the manager runs _request_blocks.
\* =========================================================================
TaskReaders == {1, 2}
TaskManager == 3
TaskIds     == TaskReaders \cup {TaskManager}
TaskBlockSize == 2
\* The block sets a have frame can carry.
TaskHaves   == {{0}, FileBlockIds(TaskBlockSize)}

\* Where a task is: op is the method it is inside ("idle" between frames or
\* ticks), b and blocks are the arguments of the call.
TaskAt(op, b, blocks) == [op |-> op, b |-> b, blocks |-> blocks]
TaskIdle == TaskAt("idle", 0, {})

\* update_peer_blocks up to the end of its first loop: the bootstrap of
\* total_block_count and the removal of the peer from the blocks it lost.
update_peer_blocks_first(bm, peer_id, their_blocks) ==
    LET boot == bm.total_block_count = 0 /\ their_blocks # {}
    IN  [bm EXCEPT
           !.total_block_count = IF boot THEN Cardinality(their_blocks) ELSE @,
           !.all_block_ids     = IF boot THEN SortedByIndex(their_blocks) ELSE @,
           !.peer_block_map    =
               [b \in DOMAIN bm.peer_block_map |->
                   IF b \in their_blocks THEN bm.peer_block_map[b]
                   ELSE bm.peer_block_map[b] \ {peer_id}]]

\* update_peer_blocks, its second loop: the peer joins each of its blocks.
update_peer_blocks_second(bm, peer_id, their_blocks) ==
    [bm EXCEPT !.peer_block_map =
        [b \in DOMAIN bm.peer_block_map \cup their_blocks |->
            IF b \in their_blocks
            THEN (IF b \in DOMAIN bm.peer_block_map
                  THEN bm.peer_block_map[b] ELSE {}) \cup {peer_id}
            ELSE bm.peer_block_map[b]]]

\* How often add_block returned True for a block, how often
\* _broadcast_have_update ran after it, and the block sets of the last have
\* sent on the connections and of the last UPDATE_BLOCKS sent to the tracker
\* (the empty set of the have and the REGISTER the download began with).
NoHist == [added |-> [b \in FileBlockIds(TaskBlockSize) |-> 0],
           bcast |-> [b \in FileBlockIds(TaskBlockSize) |-> 0],
           have  |-> {},
           upd   |-> {}]

TInit ==
    /\ t_bm = NewBlockManager(TaskBlockSize)
    /\ t_pc = [t \in TaskIds |-> TaskIdle]
    /\ t_hist = NoHist

\* block_data on a reader: add_block's test `block_id in self.my_blocks`.
TAddBlockTest ==
    \E t \in TaskReaders, b \in FileBlockIds(TaskBlockSize) :
       /\ t_pc[t] = TaskIdle
       /\ t_pc' = IF b \in DOMAIN t_bm.my_blocks THEN t_pc
                  ELSE [t_pc EXCEPT ![t] = TaskAt("add_block", b, {})]
       /\ UNCHANGED <<t_bm, t_hist>>
       /\ UNCHANGED <<storeVars, chokeVars, nodeVars, trackerVars, swarmVars, sideVars>>

\* add_block past its test: the block is stored and True is returned.
TAddBlockStore ==
    \E t \in TaskReaders :
       /\ t_pc[t].op = "add_block"
       /\ t_bm' = [t_bm EXCEPT !.my_blocks =
                      DictSet(@, t_pc[t].b, FileBlocks(TaskBlockSize)[t_pc[t].b])]
       /\ t_hist' = [t_hist EXCEPT !.added[t_pc[t].b] = @ + 1]
       /\ t_pc' = [t_pc EXCEPT ![t].op = "broadcast"]
       /\ UNCHANGED <<storeVars, chokeVars, nodeVars, trackerVars, swarmVars, sideVars>>

\* The reader after add_block returned True: _broadcast_have_update builds
\* its have frame from get_my_blocks, before it takes connections_lock.
TBroadcastMsg ==
    \E t \in TaskReaders :
       /\ t_pc[t].op = "broadcast"
       /\ t_pc' = [t_pc EXCEPT ![t].op = "have",
                                ![t].blocks = get_my_blocks(t_bm)]
       /\ UNCHANGED <<t_bm, t_hist>>
       /\ UNCHANGED <<storeVars, chokeVars, nodeVars, trackerVars, swarmVars, sideVars>>

\* _broadcast_have_update: under connections_lock the frame is sent on
\* every connection.
TBroadcast ==
    \E t \in TaskReaders :
       /\ t_pc[t].op = "have"
       /\ t_hist' = [t_hist EXCEPT !.bcast[t_pc[t].b] = @ + 1,
                                   !.have = t_pc[t].blocks]
       /\ t_pc' = [t_pc EXCEPT ![t].op = "tracker", ![t].blocks = {}]
       /\ UNCHANGED t_bm
       /\ UNCHANGED <<storeVars, chokeVars, nodeVars, trackerVars, swarmVars, sideVars>>

\* _update_tracker_blocks builds its UPDATE_BLOCKS from get_my_blocks.
TUpdateTrackerMsg ==
    \E t \in TaskReaders :
       /\ t_pc[t].op = "tracker"
       /\ t_pc' = [t_pc EXCEPT ![t].op = "update_blocks",
                                ![t].blocks = get_my_blocks(t_bm)]
       /\ UNCHANGED <<t_bm, t_hist>>
       /\ UNCHANGED <<storeVars, chokeVars, nodeVars, trackerVars, swarmVars, sideVars>>

\* _send_to_tracker: the UPDATE_BLOCKS reaches the tracker.
TUpdateTrackerSend ==
    \E t \in TaskReaders :
       /\ t_pc[t].op = "update_blocks"
       /\ t_hist' = [t_hist EXCEPT !.upd = t_pc[t].blocks]
       /\ t_pc' = [t_pc EXCEPT ![t] = TaskIdle]
       /\ UNCHANGED t_bm
       /\ UNCHANGED <<storeVars, chokeVars, nodeVars, trackerVars, swarmVars, sideVars>>

\* have on a reader: update_peer_blocks, first loop.
TUpdatePeerBlocksFirst ==
    \E t \in TaskReaders, their \in TaskHaves :
       /\ t_pc[t] = TaskIdle
       /\ t_bm' = update_peer_blocks_first(t_bm, t, their)
       /\ t_pc' = [t_pc EXCEPT ![t] = TaskAt("update_peer_blocks", 0, their)]
       /\ UNCHANGED t_hist
       /\ UNCHANGED <<storeVars, chokeVars, nodeVars, trackerVars, swarmVars, sideVars>>

\* update_peer_blocks, second loop.
TUpdatePeerBlocksSecond ==
    \E t \in TaskReaders :
       /\ t_pc[t].op = "update_peer_blocks"
       /\ t_bm' = update_peer_blocks_second(t_bm, t, t_pc[t].blocks)
       /\ t_pc' = [t_pc EXCEPT ![t] = TaskIdle]
       /\ UNCHANGED t_hist
       /\ UNCHANGED <<storeVars, chokeVars, nodeVars, trackerVars, swarmVars, sideVars>>

\* The cleanup of a reader enters remove_peer_blocks.
TRemovePeerBlocksCall ==
    \E t \in TaskReaders :
       /\ t_pc[t] = TaskIdle
       /\ t_pc' = [t_pc EXCEPT ![t] = TaskAt("remove_peer_blocks", 0, {})]
       /\ UNCHANGED <<t_bm, t_hist>>
       /\ UNCHANGED <<storeVars, chokeVars, nodeVars, trackerVars, swarmVars, sideVars>>

\* remove_peer_blocks: its loop, and the return.
TRemovePeerBlocksLoop ==
    \E t \in TaskReaders :
       /\ t_pc[t].op = "remove_peer_blocks"
       /\ t_bm' = remove_peer_blocks(t_bm, t)
       /\ t_pc' = [t_pc EXCEPT ![t] = TaskIdle]
       /\ UNCHANGED t_hist
       /\ UNCHANGED <<storeVars, chokeVars, nodeVars, trackerVars, swarmVars, sideVars>>

\* The manager's _request_blocks: is_complete and get_rarest_missing_blocks.
TRequestBlocksCall ==
    /\ t_pc[TaskManager] = TaskIdle
    /\ ~is_complete(t_bm)
    /\ get_missing_blocks(t_bm) # {}
    /\ t_bm' = is_complete_store(t_bm)
    /\ t_pc' = [t_pc EXCEPT ![TaskManager] =
                   TaskAt("request_blocks", 0, get_missing_blocks(t_bm))]
    /\ UNCHANGED t_hist
    /\ UNCHANGED <<storeVars, chokeVars, nodeVars, trackerVars, swarmVars, sideVars>>

\* _request_blocks: the reads of peer_block_map, and the return.
TRequestBlocksRead ==
    /\ t_pc[TaskManager].op = "request_blocks"
    /\ t_pc' = [t_pc EXCEPT ![TaskManager] = TaskIdle]
    /\ UNCHANGED <<t_bm, t_hist>>
    /\ UNCHANGED <<storeVars, chokeVars, nodeVars, trackerVars, swarmVars, sideVars>>

TNext ==
    \/ TAddBlockTest
    \/ TAddBlockStore
    \/ TBroadcastMsg
    \/ TBroadcast
    \/ TUpdateTrackerMsg
    \/ TUpdateTrackerSend
    \/ TUpdatePeerBlocksFirst
    \/ TUpdatePeerBlocksSecond
    \/ TRemovePeerBlocksCall
    \/ TRemovePeerBlocksLoop
    \/ TRequestBlocksCall
    \/ TRequestBlocksRead

TIdle ==
    /\ t_bm = NewBlockManager(1)
    /\ t_pc = [t \in TaskIds |-> TaskIdle]
    /\ t_hist = NoHist

\* =========================================================================
\* The UnchokeManager of src/peer alone: download-rate ranking for the fixed
\* slots and an optimistic slot that changes every OPTIMISTIC_INTERVAL
\* seconds.  The fields of PeerStatistics that are written and never read
\* (blocks_received, total_bytes_received, last_received_time,
\* upload_allowed) are left out.  Rates are kept in thousandths of a byte
\* per second, which keeps the weighted average exact over the calls of a run.
\* lock is "free", or "held" by a caller that waits for it itself.
\* =========================================================================
RatePeers == 1..NumRatePeers
\* The peers blocks are downloaded from, and the size of a block.
RateSenders == {1}
\* The peers that disconnect.
RateLeavers == {1}
RateBytes   == {600}
\* time.time() at the start, and after the last step of the clock.
RateStart == OPTIMISTIC_INTERVAL
RateEnd   == RateStart + MaxRateTicks * EVALUATION_INTERVAL

\* PeerStatistics(peer_id, last_update_time=time.time())
PeerStatistics(now) ==
    [download_rate |-> 0, is_interested |-> FALSE, last_update_time |-> now]

\* UnchokeManager.__init__ (src/peer); order is the insertion order of
\* peer_stats, time the value time.time() returns.
NewRateManager ==
    [fixed_peers |-> {}, optimistic_peer |-> NoPeer, peer_stats |-> EmptyDict,
     order |-> <<>>, last_optimistic_change |-> 0, last_evaluation_time |-> 0,
     lock |-> "free", time |-> RateStart]

RMCall(op, peer, returned) == [op |-> op, peer |-> peer, returned |-> returned]

\* register_peer
rm_register_peer(m, p) ==
    IF p \notin DOMAIN m.peer_stats
    THEN [m EXCEPT !.peer_stats = DictSet(@, p, PeerStatistics(m.time)),
                   !.order = Append(@, p)]
    ELSE m

\* unregister_peer
rm_unregister_peer(m, p) ==
    [m EXCEPT !.peer_stats = DictRemove(@, p),
              !.order = SeqRemove(@, p),
              !.fixed_peers = @ \ {p},
              !.optimistic_peer = IF @ = p THEN NoPeer ELSE @,
              !.last_optimistic_change =
                  IF m.optimistic_peer = p THEN 0 ELSE @]

\* record_download for a registered peer: the weighted average of the rate.
rm_record_download(m, p, n) ==
    LET stats    == m.peer_stats[p]
        elapsed  == m.time - stats.last_update_time
        new_rate == (n * 1000) \div elapsed
        rate     == IF elapsed > 0
                    THEN IF stats.download_rate > 0
                         THEN (7 * stats.download_rate + 3 * new_rate) \div 10
                         ELSE new_rate
                    ELSE stats.download_rate
    IN  [m EXCEPT !.peer_stats[p].download_rate = rate,
                  !.peer_stats[p].last_update_time = m.time]

\* set_peer_interested for a registered peer
rm_set_peer_interested(m, p, b) ==
    [m EXCEPT !.peer_stats[p].is_interested = b]

\* The position of p in the insertion order of peer_stats.
OrderIndex(m, p) == CHOOSE i \in 1..Len(m.order) : m.order[i] = p

\* sorted(interested_peers, key=download_rate, reverse=True) is stable: p
\* comes before q if its rate is higher, or equal and p was inserted first.
RankedBefore(m, p, q) ==
    \/ m.peer_stats[p].download_rate > m.peer_stats[q].download_rate
    \/ /\ m.peer_stats[p].download_rate = m.peer_stats[q].download_rate
       /\ OrderIndex(m, p) < OrderIndex(m, q)

\* evaluate_peers: the first MAX_FIXED_UNCHOKED interested peers by rate.
new_fixed_peers(m) ==
    LET interested == {p \in DOMAIN m.peer_stats : m.peer_stats[p].is_interested}
    IN  {p \in interested :
            Cardinality({q \in interested : RankedBefore(m, q, p)})
                < PEER_MAX_FIXED_UNCHOKED}

\* _update_optimistic_peer: the managers it can leave behind.
rm_update_optimistic_peer(m, current_time) ==
    IF current_time - m.last_optimistic_change >= OPTIMISTIC_INTERVAL
    THEN LET potential_peers ==
                 {p \in DOMAIN m.peer_stats :
                     m.peer_stats[p].is_interested /\ p \notin m.fixed_peers}
         IN  IF potential_peers # {}
             THEN {[m EXCEPT !.optimistic_peer = p,
                             !.last_optimistic_change = current_time]
                     : p \in potential_peers}
             ELSE {[m EXCEPT !.optimistic_peer = NoPeer,
                             !.last_optimistic_change = current_time]}
    ELSE {m}

\* evaluate_peers past its time gate
rm_evaluate_peers(m) ==
    rm_update_optimistic_peer(
        [m EXCEPT !.last_evaluation_time = m.time,
                  !.fixed_peers = new_fixed_peers(m)],
        m.time)

RMInit ==
    /\ rm = NewRateManager
    /\ rm_last = RMCall("new", NoPeer, TRUE)

\* time.time() moves on.
RMClock ==
    /\ rm.time < RateEnd
    /\ rm' = [rm EXCEPT !.time = @ + EVALUATION_INTERVAL]
    /\ UNCHANGED rm_last
    /\ UNCHANGED <<storeVars, chokeVars, nodeVars, trackerVars, swarmVars, taskVars>>
    /\ UNCHANGED <<dialVars, stopVars>>

\* register_peer: the peers connect one after the other when the node starts,
\* and a peer that left may come back at any time.
RMRegisterPeer ==
    /\ rm.lock = "free"
    /\ \E p \in RatePeers :
          /\ \/ p \in RateLeavers
             \/ rm.time = RateStart /\ \A q \in 1..(p - 1) : q \in Range(rm.order)
          /\ rm' = rm_register_peer(rm, p)
          /\ rm_last' = RMCall("register_peer", p, TRUE)
    /\ UNCHANGED <<storeVars, chokeVars, nodeVars, trackerVars, swarmVars, taskVars>>
    /\ UNCHANGED <<dialVars, stopVars>>

RMUnregisterPeer ==
    /\ rm.lock = "free"
    /\ \E p \in RateLeavers :
          /\ rm' = rm_unregister_peer(rm, p)
          /\ rm_last' = RMCall("unregister_peer", p, TRUE)
    /\ UNCHANGED <<storeVars, chokeVars, nodeVars, trackerVars, swarmVars, taskVars>>
    /\ UNCHANGED <<dialVars, stopVars>>

\* record_download takes the lock; for a peer that is not in peer_stats it
\* calls register_peer, which waits for the lock its caller holds.
RMRecordDownload ==
    /\ rm.lock = "free"
    /\ \E p \in RateSenders, n \in RateBytes :
          IF p \in DOMAIN rm.peer_stats
          THEN /\ rm' = rm_record_download(rm, p, n)
               /\ rm_last' = RMCall("record_download", p, TRUE)
          ELSE /\ rm' = [rm EXCEPT !.lock = "held"]
               /\ rm_last' = RMCall("record_download", p, FALSE)
    /\ UNCHANGED <<storeVars, chokeVars, nodeVars, trackerVars, swarmVars, taskVars>>
    /\ UNCHANGED <<dialVars, stopVars>>

\* set_peer_interested takes the lock and, like record_download, calls
\* register_peer under it for a peer that is not in peer_stats.
RMSetPeerInterested ==
    /\ rm.lock = "free"
    /\ \E p \in RatePeers, b \in BOOLEAN :
          IF p \in DOMAIN rm.peer_stats
          THEN /\ rm' = rm_set_peer_interested(rm, p, b)
               /\ rm_last' = RMCall("set_peer_interested", p, TRUE)
          ELSE /\ rm' = [rm EXCEPT !.lock = "held"]
               /\ rm_last' = RMCall("set_peer_interested", p, FALSE)
    /\ UNCHANGED <<storeVars, chokeVars, nodeVars, trackerVars, swarmVars, taskVars>>
    /\ UNCHANGED <<dialVars, stopVars>>

\* evaluate_peers(force): it returns False before the lock when it is not
\* forced and EVALUATION_INTERVAL has not passed.
RMEvaluatePeers ==
    /\ \E force \in BOOLEAN :
          IF ~force /\ rm.time - rm.last_evaluation_time < EVALUATION_INTERVAL
          THEN /\ UNCHANGED rm
               /\ rm_last' = RMCall("evaluate_peers_early", NoPeer, TRUE)
          ELSE /\ rm.lock = "free"
               /\ rm' \in rm_evaluate_peers(rm)
               /\ rm_last' = RMCall("evaluate_peers", NoPeer, TRUE)
    /\ UNCHANGED <<storeVars, chokeVars, nodeVars, trackerVars, swarmVars, taskVars>>
    /\ UNCHANGED <<dialVars, stopVars>>

RMNext ==
    \/ RMClock
    \/ RMRegisterPeer
    \/ RMUnregisterPeer
    \/ RMRecordDownload
    \/ RMSetPeerInterested
    \/ RMEvaluatePeers

\* =========================================================================
\* The connections of one Peer that downloads, in a swarm larger than
\* MAX_CONNECTIONS: the manager task refreshes the known peers from the
\* tracker and dials them, other peers dial in, readers end.  Only who is
\* connected is kept; the frames are those of the sections above.
\* =========================================================================
DialPeers == 1..NumDialPeers
\* The peers that dial in, and the peers whose connection ends.
DialCallers == {NumDialPeers}
DialLeavers == {1}
\* The peers that may refuse our dial.
DialRefusers == {2}
\* The peer lists of the GET_PEERS replies: at most MAX_PEERS_LISTED peers.
DialResponses ==
    {<<>>} \cup
    {[i \in 1..Min(MAX_PEERS_LISTED, NumDialPeers - p + 1) |-> p + i - 1] :
        p \in {q \in DialPeers : q % MAX_PEERS_LISTED = 1}}

\* Peer.__init__ after download_file: connections, the keys of
\* known_peers_info in insertion order, and where the manager task stands.
NewDialer ==
    [connections |-> {}, known_peers_info |-> <<>>, pc |-> "sleep", todo |-> <<>>]

DCCall(op, peer, before) == [op |-> op, peer |-> peer, before |-> before]

\* _update_peers_from_tracker: the peers of the reply that are not known yet
\* are added, in the order of the reply.
RECURSIVE AddKnown(_, _)
AddKnown(known, peers) ==
    IF peers = <<>> THEN known
    ELSE AddKnown(IF Head(peers) \in Range(known) THEN known
                  ELSE Append(known, Head(peers)),
                  Tail(peers))

DCInit ==
    /\ dc = NewDialer
    /\ dc_last = DCCall("new", NoPeer, 0)

\* _manage_connections_and_requests: a tick begins with the tracker refresh
\* and the copy of known_peers_info.
DCTick ==
    /\ dc.pc = "sleep"
    /\ \E resp \in DialResponses :
          LET known == AddKnown(dc.known_peers_info, resp)
          IN  dc' = [dc EXCEPT !.known_peers_info = known, !.todo = known,
                               !.pc = "dial"]
    /\ dc_last' = DCCall("tick", NoPeer, Cardinality(dc.connections))
    /\ UNCHANGED <<storeVars, chokeVars, nodeVars, trackerVars, swarmVars, taskVars>>
    /\ UNCHANGED <<rateVars, stopVars>>

\* The loop over the copy: a peer that is connected, or whose dial fails, is
\* passed over.
DCDialSkip ==
    /\ dc.pc = "dial"
    /\ dc.todo # <<>>
    /\ Head(dc.todo) \in dc.connections \cup DialRefusers
    /\ dc' = [dc EXCEPT !.todo = Tail(@)]
    /\ dc_last' = DCCall("dial_skip", Head(dc.todo), Cardinality(dc.connections))
    /\ UNCHANGED <<storeVars, chokeVars, nodeVars, trackerVars, swarmVars, taskVars>>
    /\ UNCHANGED <<rateVars, stopVars>>

\* The loop over the copy: _connect_to_peer for a peer that is not connected
\* succeeds and registers the connection.
DCDial ==
    /\ dc.pc = "dial"
    /\ dc.todo # <<>>
    /\ Head(dc.todo) \notin dc.connections
    /\ dc' = [dc EXCEPT !.connections = @ \cup {Head(dc.todo)}, !.todo = Tail(@)]
    /\ dc_last' = DCCall("dial", Head(dc.todo), Cardinality(dc.connections))
    /\ UNCHANGED <<storeVars, chokeVars, nodeVars, trackerVars, swarmVars, taskVars>>
    /\ UNCHANGED <<rateVars, stopVars>>

\* The loop is through; the tick ends.
DCDialEnd ==
    /\ dc.pc = "dial"
    /\ dc.todo = <<>>
    /\ dc' = [dc EXCEPT !.pc = "sleep"]
    /\ dc_last' = DCCall("dial_end", NoPeer, Cardinality(dc.connections))
    /\ UNCHANGED <<storeVars, chokeVars, nodeVars, trackerVars, swarmVars, taskVars>>
    /\ UNCHANGED <<rateVars, stopVars>>

\* _handle_incoming_connection: a peer dials in and its handshake is read.
DCAccept ==
    /\ \E p \in DialCallers :
          /\ dc' = [dc EXCEPT !.connections = @ \cup {p}]
          /\ dc_last' = DCCall("incoming", p, Cardinality(dc.connections))
    /\ UNCHANGED <<storeVars, chokeVars, nodeVars, trackerVars, swarmVars, taskVars>>
    /\ UNCHANGED <<rateVars, stopVars>>

\* _message_loop: the reader of a connection ends and cleans up.
DCClose ==
    /\ \E p \in DialLeavers \cap dc.connections :
          /\ dc' = [dc EXCEPT !.connections = @ \ {p},
                              !.known_peers_info = SeqRemove(@, p)]
          /\ dc_last' = DCCall("close", p, Cardinality(dc.connections))
    /\ UNCHANGED <<storeVars, chokeVars, nodeVars, trackerVars, swarmVars, taskVars>>
    /\ UNCHANGED <<rateVars, stopVars>>

DCNext ==
    \/ DCTick
    \/ DCDialSkip
    \/ DCDial
    \/ DCDialEnd
    \/ DCAccept
    \/ DCClose

\* =========================================================================
\* One Peer around a call of stop(): its two periodic tasks, its accept loop
\* and the tasks of its connections.  Only what the tasks wait for is kept;
\* the frames are those of the sections above.  A connection's task is at
\* "dial" (_connect_to_peer waits for the reply to our handshake), "hs"
\* (_handle_incoming_connection waits for the first frame), "loop" (the
\* while test of _message_loop), "read" (inside read_message) or "done"
\* (the task has ended); "free" is a connection not made yet.
\* =========================================================================
StopConns == 1..NumStopConns
\* The peer the node knows and dials, and the peer that dials in.
StopKnown  == <<1>>
StopCaller == 2

NewStopConn ==
    [st |-> "free", peer |-> NoPeer, outbound |-> FALSE, connected |-> FALSE]

\* Peer after start(): the periodic tasks are at their while test.
StartedPeer ==
    [running |-> TRUE, listening |-> TRUE, connections |-> EmptyDict,
     conn |-> [c \in StopConns |-> NewStopConn],
     mgr |-> [pc |-> "test", todo |-> <<>>], choke |-> "test"]

\* The connection object the next PeerConnection(...) creates.
NextConn(p) ==
    CHOOSE c \in StopConns :
       /\ p.conn[c].st = "free"
       /\ \A d \in StopConns : d < c => p.conn[d].st # "free"

\* The end of _message_loop: close, then the entry of the peer id is deleted.
MessageLoopCleanup(p, c) ==
    [p EXCEPT !.conn[c].st = "done", !.conn[c].connected = FALSE,
              !.connections = DictRemove(@, p.conn[c].peer)]

\* Peer.stop
stop(p) ==
    [p EXCEPT !.running = FALSE, !.listening = FALSE,
              !.connections = EmptyDict,
              !.conn = [c \in StopConns |->
                          IF \E q \in DOMAIN p.connections : p.connections[q] = c
                          THEN [p.conn[c] EXCEPT !.connected = FALSE]
                          ELSE p.conn[c]]]

SDInit == sd = StartedPeer

SDStop ==
    /\ sd.running
    /\ sd' = stop(sd)
    /\ UNCHANGED <<storeVars, chokeVars, nodeVars, trackerVars, swarmVars, taskVars>>
    /\ UNCHANGED <<rateVars, dialVars>>

\* _accept_connections: accept() returns a socket; its handler task starts.
SDAccept ==
    /\ sd.running /\ sd.listening
    /\ \E c \in StopConns : sd.conn[c].st = "free"
    /\ sd' = [sd EXCEPT !.conn[NextConn(sd)] =
                 [st |-> "hs", peer |-> StopCaller, outbound |-> FALSE,
                  connected |-> TRUE]]
    /\ UNCHANGED <<storeVars, chokeVars, nodeVars, trackerVars, swarmVars, taskVars>>
    /\ UNCHANGED <<rateVars, dialVars>>

\* _handle_incoming_connection: the first frame arrives.  A handshake
\* registers the connection and enters _message_loop; anything else closes.
SDHandshakeIn(c) ==
    /\ sd.conn[c].st = "hs"
    /\ \/ sd' = [sd EXCEPT !.connections = DictSet(@, sd.conn[c].peer, c),
                           !.conn[c].st = "loop"]
       \/ sd' = [sd EXCEPT !.conn[c].st = "done", !.conn[c].connected = FALSE]
    /\ UNCHANGED <<storeVars, chokeVars, nodeVars, trackerVars, swarmVars, taskVars>>
    /\ UNCHANGED <<rateVars, dialVars>>

\* _manage_connections_and_requests: the while test, then time.sleep(5).
SDMgrTest ==
    /\ sd.mgr.pc = "test"
    /\ sd' = [sd EXCEPT !.mgr.pc = IF sd.running THEN "sleep" ELSE "exit"]
    /\ UNCHANGED <<storeVars, chokeVars, nodeVars, trackerVars, swarmVars, taskVars>>
    /\ UNCHANGED <<rateVars, dialVars>>

\* The sleep is over: the copy of the known peers.
SDMgrWake ==
    /\ sd.mgr.pc = "sleep"
    /\ sd' = [sd EXCEPT !.mgr = [pc |-> "dial", todo |-> StopKnown]]
    /\ UNCHANGED <<storeVars, chokeVars, nodeVars, trackerVars, swarmVars, taskVars>>
    /\ UNCHANGED <<rateVars, dialVars>>

\* The loop over the known peers: a connected peer is passed over, and so is
\* one whose connect() fails; else _connect_to_peer sends our handshake and
\* waits for the reply.  The loop over, the tick ends.
SDMgrDial ==
    /\ sd.mgr.pc = "dial"
    /\ IF sd.mgr.todo = <<>>
       THEN sd' = [sd EXCEPT !.mgr.pc = "test"]
       ELSE \/ sd' = [sd EXCEPT !.mgr.todo = Tail(@)]
            \/ /\ Head(sd.mgr.todo) \notin DOMAIN sd.connections
               /\ \E c \in StopConns : sd.conn[c].st = "free"
               /\ sd' = [sd EXCEPT !.mgr.pc = "wait",
                            !.conn[NextConn(sd)] =
                                [st |-> "dial", peer |-> Head(sd.mgr.todo),
                                 outbound |-> TRUE, connected |-> TRUE]]
    /\ UNCHANGED <<storeVars, chokeVars, nodeVars, trackerVars, swarmVars, taskVars>>
    /\ UNCHANGED <<rateVars, dialVars>>

\* _connect_to_peer: read_message returns within the timeout of the socket.
\* A handshake registers the connection and starts its reader; anything else
\* closes it.
SDDialReply(c) ==
    /\ sd.mgr.pc = "wait"
    /\ sd.conn[c].st = "dial"
    /\ \/ sd' = [sd EXCEPT !.connections = DictSet(@, sd.conn[c].peer, c),
                           !.conn[c].st = "loop",
                           !.mgr = [pc |-> "dial", todo |-> Tail(sd.mgr.todo)]]
       \/ sd' = [sd EXCEPT !.conn[c].st = "done", !.conn[c].connected = FALSE,
                           !.mgr = [pc |-> "dial", todo |-> Tail(sd.mgr.todo)]]
    /\ UNCHANGED <<storeVars, chokeVars, nodeVars, trackerVars, swarmVars, taskVars>>
    /\ UNCHANGED <<rateVars, dialVars>>

\* _run_unchoke_logic: the while test, and a round after time.sleep(10).
SDChoke ==
    /\ \/ /\ sd.choke = "test"
          /\ sd' = [sd EXCEPT !.choke = IF sd.running THEN "sleep" ELSE "exit"]
       \/ /\ sd.choke = "sleep"
          /\ sd' = [sd EXCEPT !.choke = "test"]
    /\ UNCHANGED <<storeVars, chokeVars, nodeVars, trackerVars, swarmVars, taskVars>>
    /\ UNCHANGED <<rateVars, dialVars>>

\* _message_loop: while self.running and peer_conn.is_connected()
SDLoopTest(c) ==
    /\ sd.conn[c].st = "loop"
    /\ sd' = IF sd.running /\ sd.conn[c].connected
             THEN [sd EXCEPT !.conn[c].st = "read"]
             ELSE MessageLoopCleanup(sd, c)
    /\ UNCHANGED <<storeVars, chokeVars, nodeVars, trackerVars, swarmVars, taskVars>>
    /\ UNCHANGED <<rateVars, dialVars>>

\* read_message returns a frame the peer sent; the frame is handled.
SDRecvFrame(c) ==
    /\ sd.conn[c].st = "read"
    /\ sd' = [sd EXCEPT !.conn[c].st = "loop"]
    /\ UNCHANGED <<storeVars, chokeVars, nodeVars, trackerVars, swarmVars, taskVars>>
    /\ UNCHANGED <<rateVars, dialVars>>

\* read_message returns None because the peer closed the connection.
SDRecvEof(c) ==
    /\ sd.conn[c].st = "read"
    /\ sd' = MessageLoopCleanup(sd, c)
    /\ UNCHANGED <<storeVars, chokeVars, nodeVars, trackerVars, swarmVars, taskVars>>
    /\ UNCHANGED <<rateVars, dialVars>>

\* read_message returns None because recv timed out: connect() gave the
\* socket of an outbound connection a timeout of five seconds.
SDRecvTimeout(c) ==
    /\ sd.conn[c].st = "read"
    /\ sd.conn[c].outbound
    /\ sd' = MessageLoopCleanup(sd, c)
    /\ UNCHANGED <<storeVars, chokeVars, nodeVars, trackerVars, swarmVars, taskVars>>
    /\ UNCHANGED <<rateVars, dialVars>>

\* recv on a socket that stop() closed from its own thread: the platform may
\* fail the call, or leave it waiting for the peer as if nothing happened.
SDRecvClosed(c) ==
    /\ sd.conn[c].st = "read"
    /\ ~sd.conn[c].connected
    /\ sd' = MessageLoopCleanup(sd, c)
    /\ UNCHANGED <<storeVars, chokeVars, nodeVars, trackerVars, swarmVars, taskVars>>
    /\ UNCHANGED <<rateVars, dialVars>>

SDHandshakeInAny == \E c \in StopConns : SDHandshakeIn(c)
SDDialReplyAny   == \E c \in StopConns : SDDialReply(c)
SDLoopTestAny    == \E c \in StopConns : SDLoopTest(c)
SDRecvFrameAny   == \E c \in StopConns : SDRecvFrame(c)
SDRecvEofAny     == \E c \in StopConns : SDRecvEof(c)
SDRecvTimeoutAny == \E c \in StopConns : SDRecvTimeout(c)
SDRecvClosedAny  == \E c \in StopConns : SDRecvClosed(c)

SDNext ==
    \/ SDStop
    \/ SDAccept
    \/ SDHandshakeInAny
    \/ SDMgrTest
    \/ SDMgrWake
    \/ SDMgrDial
    \/ SDDialReplyAny
    \/ SDChoke
    \/ SDLoopTestAny
    \/ SDRecvFrameAny
    \/ SDRecvEofAny
    \/ SDRecvTimeoutAny
    \/ SDRecvClosedAny

\* Fair scheduling: every task of the node that can take a step takes one,
\* and a read with a timeout returns.  What the user and the other peers do
\* (stop, dialing in, sending, closing) is not forced, and neither is the
\* failure of a recv on a socket closed under it.
SDFairness ==
    /\ WF_vars(SDMgrTest) /\ WF_vars(SDMgrWake) /\ WF_vars(SDMgrDial)
    /\ WF_vars(SDChoke)
    /\ \A c \in StopConns :
          /\ WF_vars(SDDialReply(c))
          /\ WF_vars(SDLoopTest(c))
          /\ WF_vars(SDRecvTimeout(c))

\* The models of the other sections at rest.
MainIdle == BSIdle /\ UMIdle /\ NIdle /\ TKIdle /\ WIdle /\ TIdle

RMIdle == rm = 0 /\ rm_last = 0

DCIdle == dc = 0 /\ dc_last = 0

SDIdle == sd = 0

SideIdle == RMIdle /\ DCIdle /\ SDIdle

\* =========================================================================
\* Specifications
\* =========================================================================
InitStore == BSInit /\ UMIdle /\ NIdle /\ TKIdle /\ WIdle /\ TIdle /\ SideIdle

SpecStore == InitStore /\ [][BSNext]_vars

InitChoke == UMInit /\ BSIdle /\ NIdle /\ TKIdle /\ WIdle /\ TIdle /\ SideIdle

SpecChoke == InitChoke /\ [][UMNext]_vars

InitNode == NInit /\ BSIdle /\ UMIdle /\ TKIdle /\ WIdle /\ TIdle /\ SideIdle

SpecNode == InitNode /\ [][NNext]_vars

\* The tracker alone.
InitTracker == TKInit /\ BSIdle /\ UMIdle /\ NIdle /\ WIdle /\ TIdle /\ SideIdle
SpecTracker == InitTracker /\ [][TKNext]_vars
SpecTrackerFaults == InitTracker /\ [][TKFaultNext]_vars

\* The swarm, with fair scheduling of the periodic tasks and the readers.
InitSwarm == WInit /\ BSIdle /\ UMIdle /\ NIdle /\ TIdle /\ SideIdle
SpecSwarm == InitSwarm /\ [][WNext]_vars /\ WFairness

\* The swarm of one seeder and two leechers, under the same fairness.
InitSwarm3 == W3Init /\ BSIdle /\ UMIdle /\ NIdle /\ TIdle /\ SideIdle
SpecSwarm3 == InitSwarm3 /\ [][W3Next]_vars /\ W3Fairness

\* The tasks of one Peer between the statements of their BlockManager calls.
InitRate == RMInit /\ MainIdle /\ DCIdle /\ SDIdle
SpecRate == InitRate /\ [][RMNext]_vars

InitDial == DCInit /\ MainIdle /\ RMIdle /\ SDIdle
SpecDial == InitDial /\ [][DCNext]_vars

InitStop == SDInit /\ MainIdle /\ RMIdle /\ DCIdle
SpecStop == InitStop /\ [][SDNext]_vars /\ SDFairness

InitTasks == TInit /\ BSIdle /\ UMIdle /\ NIdle /\ TKIdle /\ WIdle /\ SideIdle
SpecTasks == InitTasks /\ [][TNext]_vars

\* =========================================================================
\* Properties of the block store (SpecStore)
\* =========================================================================

\* C6: add_block(id, data) returns false and leaves the store unchanged when
\* id is already owned, or when all_block_ids is known (non-empty) and id is
\* not in it; otherwise it stores data under id and returns true.
C6_AddBlockContract ==
    [][ bs_last'.op = "add_block" =>
          LET id   == bs_last'.id
              data == bs_last'.data
          IN  IF \/ id \in get_my_blocks(bs)
                 \/ (bs.all_block_ids # <<>> /\ id \notin Range(bs.all_block_ids))
              THEN bs_last'.ret = FALSE /\ bs' = bs
              ELSE /\ bs_last'.ret = TRUE
                   /\ get_block_data(bs', id) = data
                   /\ get_my_blocks(bs') = get_my_blocks(bs) \cup {id} ]_vars

\* C7: once all_block_ids is bootstrapped, owned_blocks() and missing_blocks()
\* are disjoint and their union is the set of all_block_ids.
C7_OwnedMissingPartition ==
    bs.all_block_ids # <<>> =>
       /\ get_my_blocks(bs) \cap get_missing_blocks(bs) = {}
       /\ get_my_blocks(bs) \cup get_missing_blocks(bs) = Range(bs.all_block_ids)

\* C8: if is_complete() is true then get_rarest_missing_blocks() returns the
\* empty list.
C8_CompleteHasNoMissing ==
    is_complete(bs) => get_rarest_missing_blocks(bs) = {<<>>}

\* C9: after add_block(id, data) returns true, get_block_data(id) is data and
\* id is owned; and a stored block keeps its data over every later call.
C9_StoredBlocksImmutable ==
    [][ /\ \A id \in get_my_blocks(bs) :
              /\ id \in get_my_blocks(bs')
              /\ get_block_data(bs', id) = get_block_data(bs, id)
        /\ (bs_last'.op = "add_block" /\ bs_last'.ret) =>
              /\ bs_last'.id \in get_my_blocks(bs')
              /\ get_block_data(bs', bs_last'.id) = bs_last'.data ]_vars

\* C9 witness: an add_block naming an owned id with other data was refused
\* and the block still holds what was stored first.
C9_Witness ==
    /\ bs_last.op = "add_block"
    /\ bs_last.ret = FALSE
    /\ bs_last.id \in get_my_blocks(bs)
    /\ get_block_data(bs, bs_last.id) # bs_last.data

\* =========================================================================
\* Properties of the unchoke manager (SpecChoke)
\* =========================================================================

\* C10: after any sequence of evaluate_peers and unregister_peer calls the
\* fixed set has at most MAX_FIXED_UNCHOKED members, there is at most one
\* optimistic peer, and the optimistic peer is not in the fixed set.
C10_UnchokeSlots ==
    /\ Cardinality(um.fixed_unchoked) <= MAX_FIXED_UNCHOKED
    /\ Cardinality(OptSet(um.optimistic_unchoke)) <= 1
    /\ um.optimistic_unchoke \notin um.fixed_unchoked

\* C10 witness: an evaluation filled every fixed slot and the optimistic one.
C10_Witness ==
    /\ um_last.op = "evaluate_peers"
    /\ Cardinality(um.fixed_unchoked) = MAX_FIXED_UNCHOKED
    /\ um.optimistic_unchoke # NoPeer

\* =========================================================================
\* Claims about the Peer (SpecNode)
\* =========================================================================

\* C1: when a leecher completes its download, the file it reconstructs is
\* byte for byte the file the seeder shared, whichever peer's block set it
\* saw first.
C1_OutputEqualsFile ==
    n_out # None => n_out = NodeFile

\* The download completed and a file was written.
C1_Witness ==
    n_out # None /\ ~n_task

\* C2: every block_data sent to a peer is sent while is_unchoked(peer) holds
\* and carries a block the node owns.
C2_ServeOnlyUnchokedOwned ==
    \A m \in n_sent :
       m.msg.type = "block_data" =>
          /\ is_unchoked(n_um, m.peer)
          /\ m.msg.block_id \in get_my_blocks(n_bm)

\* A block_data was sent.
C2_Witness ==
    \E m \in n_sent : m.msg.type = "block_data"

\* C3: every request_block is sent on a connection whose peer has us
\* unchoked at that moment, for a block that peer advertised, however the
\* request manager and the connection's reader interleave.
C3_RequestOnlyUnchokedAdvertised ==
    \A m \in n_sent :
       m.msg.type = "request_block" =>
          /\ ~n_socks[m.sock].cbp
          /\ m.msg.block_id \in get_peer_blocks(n_bm, m.peer)

\* A request_block was sent.
C3_Witness ==
    \E m \in n_sent : m.msg.type = "request_block"

C5_RejectionChangesNothing ==
    [][ (n_ev'.op = "incoming" /\ n_ev'.type # "handshake") =>
           /\ UNCHANGED <<n_mode, n_bm, n_um, n_conns, n_known, n_task, n_out,
                          n_socks, n_mgr>>
           /\ n_sent' = {} ]_vars

\* A socket that opened with a have frame was turned away while another
\* connection was registered.
C5_Witness ==
    /\ n_ev.op = "incoming"
    /\ n_ev.type = "have"
    /\ DOMAIN n_conns # {}

\* C11: whatever list evaluate_peers is given, the empty list included, the
\* pair it returns is the difference of the unchoked set (fixed plus
\* optimistic) after and before the call: to_unchoke = new - previous and
\* to_choke = previous - new, so that afterwards is_unchoked is false on
\* to_choke and true on to_unchoke.
C11_EvaluateReturnsDifference ==
    [][ um_last'.op = "evaluate_peers" =>
          LET previous == um.fixed_unchoked \cup OptSet(um.optimistic_unchoke)
              new      == um'.fixed_unchoked \cup OptSet(um'.optimistic_unchoke)
          IN  /\ um_last'.to_unchoke = new \ previous
              /\ um_last'.to_choke = previous \ new
              /\ \A p \in um_last'.to_choke : ~is_unchoked(um', p)
              /\ \A p \in um_last'.to_unchoke : is_unchoked(um', p) ]_vars

\* evaluate_peers was called with no interested peer while peers were unchoked.
C11_Witness ==
    /\ um_last.op = "evaluate_peers"
    /\ um_last.interested = <<>>
    /\ um.fixed_unchoked # {}

\* C12: a have is a full and idempotent advertisement: after
\* update_peer_blocks(p, S) the blocks recorded for p are exactly S whatever
\* p advertised before, the blocks recorded for every other peer are as they
\* were, and the same call made again leaves peer_block_map as it is.
C12_HaveIsFullAndIdempotent ==
    [][ bs_last'.op = "update_peer_blocks" =>
          LET p == bs_last'.peer
              S == bs_last'.blocks
          IN  /\ get_peer_blocks(bs', p) = S
              /\ \A q \in StorePeers \ {p} :
                    get_peer_blocks(bs', q) = get_peer_blocks(bs, q)
              /\ update_peer_blocks(bs', p, S).peer_block_map = bs'.peer_block_map
        ]_vars

\* Peer 1 has just advertised block 1 alone while peer 2 holds both blocks.
C12_Witness ==
    /\ bs_last.op = "update_peer_blocks"
    /\ bs_last.peer = 1
    /\ bs_last.blocks = {1}
    /\ get_peer_blocks(bs, 2) = {0, 1}
    /\ get_peer_blocks(bs, 1) = {1}

\* C13: after remove_peer_blocks(p), p is in no entry of peer_block_map, the
\* blocks recorded for every other peer are as they were, and a missing
\* block that p alone held keeps an empty entry (rarity 0) and is still
\* listed by get_rarest_missing_blocks.
C13_RemovePeerPurges ==
    [][ bs_last'.op = "remove_peer_blocks" =>
          LET p == bs_last'.peer
          IN  /\ \A b \in DOMAIN bs'.peer_block_map : p \notin bs'.peer_block_map[b]
              /\ \A q \in StorePeers \ {p} :
                    get_peer_blocks(bs', q) = get_peer_blocks(bs, q)
              /\ \A b \in get_missing_blocks(bs) :
                    (b \in DOMAIN bs.peer_block_map /\ bs.peer_block_map[b] = {p}) =>
                       /\ b \in DOMAIN bs'.peer_block_map
                       /\ bs'.peer_block_map[b] = {}
                       /\ RarityOf(bs', b) = 0
                       /\ \A order \in get_rarest_missing_blocks(bs') :
                             b \in Range(order) ]_vars

\* A peer was removed and a missing block is left with an empty entry while
\* another missing block still has a holder.
C13_Witness ==
    /\ bs_last.op = "remove_peer_blocks"
    /\ \E b, c \in get_missing_blocks(bs) :
          /\ b \in DOMAIN bs.peer_block_map
          /\ bs.peer_block_map[b] = {}
          /\ RarityOf(bs, c) > 0

\* C14: rarest first: the block named in a request_block the manager sends
\* has the least number of holders among the missing blocks that have a
\* holder which is connected and has us unchoked, and the peer the request
\* goes to is one of those holders of the block.
C14_RarestFirst ==
    \A m \in n_sent :
       m.msg.type = "request_block" =>
          LET b        == m.msg.block_id
              Servable == {x \in get_missing_blocks(n_bm) :
                              Candidates(n_bm, n_conns, n_socks, x) # {}}
          IN  /\ b \in Servable
              /\ \A x \in Servable : RarityOf(n_bm, b) <= RarityOf(n_bm, x)
              /\ m.peer \in Candidates(n_bm, n_conns, n_socks, b)

\* A request_block was sent while two blocks were missing and both had a
\* holder.
C14_Witness ==
    /\ \E m \in n_sent : m.msg.type = "request_block"
    /\ Cardinality(get_missing_blocks(n_bm)) = 2
    /\ \A x \in get_missing_blocks(n_bm) : RarityOf(n_bm, x) > 0

C16_LeecherBecomesSeeder ==
    [][ /\ (n_ev'.op = "recv" /\ n_ev'.type = "block_data"
              /\ ~is_complete(n_bm) /\ is_complete(n_bm')) =>
              /\ n_out' = reconstruct_file(n_bm')
              /\ ~n_task'
              /\ n_conns' = n_conns
              /\ \A s \in SockIds : n_socks'[s].st = n_socks[s].st
        /\ n_out # None =>
              /\ \A m \in n_sent' : m.msg.type \notin {"request_block", "GET_PEERS"}
              /\ n_ev'.op = "serve" =>
                    \A b \in n_socks[n_ev'.sock].serve :
                       b \in get_my_blocks(n_bm) =>
                          \E m \in n_sent' : /\ m.msg.type = "block_data"
                                             /\ m.msg.block_id = b
                                             /\ m.sock = n_ev'.sock ]_vars

\* After the download completed, a request_block of a peer was answered.
C16_Witness ==
    /\ n_out # None
    /\ n_ev.op = "serve"
    /\ \E m \in n_sent : m.msg.type = "block_data"

\* C18: after the handshake, a frame whose type is none of have,
\* request_block, block_data, choke, unchoke closes the connection it came
\* on and runs the cleanup for its peer, as a read error does: the
\* connection is closed, the peer leaves Peer.connections and
\* known_peers_info, its blocks leave peer_block_map and it is unregistered
\* from the unchoke manager.
C18_UnknownTypeCloses ==
    [][ (n_ev'.op = "recv" /\ n_ev'.type = "bogus") =>
          LET s == n_ev'.sock
              p == n_socks[s].peer
          IN  /\ n_socks'[s].st = "dead"
              /\ p \notin DOMAIN n_conns'
              /\ p \notin Range(n_known')
              /\ n_bm' = remove_peer_blocks(n_bm, p)
              /\ n_um' = unregister_peer(n_um, p) ]_vars

\* A frame of an unknown type was read on a registered connection.
C18_Witness ==
    /\ n_ev.op = "recv"
    /\ n_ev.type = "bogus"
    /\ \E p \in DOMAIN n_conns : n_conns[p] = n_ev.sock

\* -------------------------------------------------------------------------
\* C19: a GET_PEERS command is answered with status ok and a list of at most
\* five peers, all distinct, each one registered under the requested
\* file_name and listed with its registered address and block set, and never
\* the requester itself; the registry is left as it was; when no other peer
\* is registered under the file the list is empty.
\* -------------------------------------------------------------------------
C19_GetPeersAnswer ==
    tk_last.msg.command = "GET_PEERS" =>
        LET m      == tk_last.msg
            before == tk_last.before
            peers  == tk_last.response.peers
        IN  /\ tk_last.response.status = "ok"
            /\ Len(peers) <= MAX_PEERS_LISTED
            /\ \A i, j \in 1..Len(peers) :
                  peers[i].peer_id = peers[j].peer_id => i = j
            /\ \A i \in 1..Len(peers) :
                  /\ Registered(before, m.file_name, peers[i].peer_id)
                  /\ peers[i].address =
                        before[m.file_name][peers[i].peer_id].address
                  /\ peers[i].blocks =
                        before[m.file_name][peers[i].peer_id].blocks
                  /\ peers[i].peer_id # m.peer_id
            /\ tk = before
            /\ (\A p \in TrackerPeers \ {m.peer_id} :
                   ~Registered(before, m.file_name, p)) => peers = <<>>

\* A registered peer asks for a file under which more than five other peers
\* are registered, one of them with a second address and a block, and gets
\* five of them.
C19_Witness ==
    /\ tk_last.msg.command = "GET_PEERS"
    /\ Registered(tk, tk_last.msg.file_name, tk_last.msg.peer_id)
    /\ Cardinality(DOMAIN tk[tk_last.msg.file_name] \ {tk_last.msg.peer_id})
          > MAX_PEERS_LISTED
    /\ Len(tk_last.response.peers) = MAX_PEERS_LISTED
    /\ \E i \in 1..Len(tk_last.response.peers) :
          /\ tk_last.response.peers[i].address = <<1, 2>>
          /\ tk_last.response.peers[i].blocks = {0}

\* -------------------------------------------------------------------------
\* C20: the tracker answers REMOVE: for a registered peer_id with status ok,
\* and the peer is gone from the registry (so no later GET_PEERS lists it);
\* for an unregistered peer_id with status fail, and the registry is left
\* as it was.
\* -------------------------------------------------------------------------
C20_RemoveAnswer ==
    tk_last.msg.command = "REMOVE" =>
        LET p      == tk_last.msg.peer_id
            before == tk_last.before
        IN  IF \E f \in DOMAIN before : Registered(before, f, p)
            THEN /\ tk_last.response.status = "ok"
                 /\ \A f \in DOMAIN tk : ~Registered(tk, f, p)
            ELSE /\ tk_last.response.status = "fail"
                 /\ tk = before

\* A registered peer has sent REMOVE and the tracker has answered.
C20_Witness ==
    /\ tk_last.msg.command = "REMOVE"
    /\ Registered(tk_last.before, "a.bin", tk_last.msg.peer_id)
    /\ tk_last.response.status # ""

\* -------------------------------------------------------------------------
\* C17: with one tracker, one seeder holding every block of a non-empty file
\* and one leecher, no connection or tracker failure, and weak fairness on
\* the manager ticks, the choke ticks and the delivery of frames, the leecher
\* eventually is complete and holds every block of the file.
\* -------------------------------------------------------------------------
C17_LeecherEventuallyComplete ==
    <>(/\ is_complete(w_node[WLeecher].bm)
       /\ get_my_blocks(w_node[WLeecher].bm) = FileBlockIds(WBlockSize))

\* The leecher has lost its connection to the seeder to a read timeout (the
\* seeder's end is still open) and has none of the file's blocks.
C17_Witness ==
    /\ w_node[WLeecher].mode = "up"
    /\ w_node[WSeeder].mode = "up"
    /\ get_my_blocks(w_node[WLeecher].bm) = {}
    /\ WSeeder \notin DOMAIN w_node[WLeecher].conns
    /\ \E l \in LinkIds : /\ w_link[l].dialer = WLeecher
                          /\ w_link[l].d.st = "dead"
                          /\ w_link[l].a.st = "loop"

\* -------------------------------------------------------------------------
\* C21: UPDATE_BLOCKS from a peer registered under file_name replaces that
\* peer's block set, leaves its address and every other entry of the registry
\* as they were, and is answered with status ok; UPDATE_BLOCKS from a peer
\* not registered under the file, and a command the tracker does not know,
\* are answered with status error and leave the registry unchanged.
\* -------------------------------------------------------------------------
C21_UpdateBlocksAnswer ==
    LET m      == tk_last.msg
        before == tk_last.before
    IN  /\ (m.command = "UPDATE_BLOCKS"
              /\ Registered(before, m.file_name, m.peer_id)) =>
              /\ tk_last.response.status = "ok"
              /\ DOMAIN tk = DOMAIN before
              /\ \A f \in DOMAIN tk : DOMAIN tk[f] = DOMAIN before[f]
              /\ tk[m.file_name][m.peer_id].blocks = m.blocks
              /\ tk[m.file_name][m.peer_id].address =
                    before[m.file_name][m.peer_id].address
              /\ \A f \in DOMAIN tk : \A p \in DOMAIN tk[f] :
                    (f # m.file_name \/ p # m.peer_id) =>
                        tk[f][p] = before[f][p]
        /\ (m.command = "UPDATE_BLOCKS"
              /\ ~Registered(before, m.file_name, m.peer_id)) =>
              /\ tk_last.response.status = "error"
              /\ tk = before
        /\ m.command \in OtherCommands =>
              /\ tk_last.response.status = "error"
              /\ tk = before

\* Peer 1, registered under the first file with its second address and next
\* to another peer, has reported a block set that differs from the one the
\* tracker held for it.
C21_Witness ==
    /\ tk_last.msg.command = "UPDATE_BLOCKS"
    /\ tk_last.msg.peer_id = 1
    /\ Registered(tk_last.before, tk_last.msg.file_name, 1)
    /\ tk_last.before[tk_last.msg.file_name][1].address = <<1, 2>>
    /\ tk_last.before[tk_last.msg.file_name][1].blocks # tk_last.msg.blocks
    /\ Cardinality(DOMAIN tk_last.before[tk_last.msg.file_name]) > 1

\* -------------------------------------------------------------------------
\* C22: when the cleanup of a closed connection to peer P has run and P has
\* no live connection left, P is neither in the fixed unchoked set nor the
\* optimistic peer and is in no value of peer_block_map; and the state of the
\* unchoke manager is changed by the choke task only.
\* -------------------------------------------------------------------------
C22_PurgeOnDestruction ==
    [][ /\ (n_ev'.op = "recv" /\ n_ev'.type = "eof") =>
              LET P == n_socks[n_ev'.sock].peer
              IN  (\A s \in SockIds :
                      n_socks'[s].peer = P => n_socks'[s].st \notin {"dialing", "loop"})
                  => /\ ~is_unchoked(n_um', P)
                     /\ \A b \in DOMAIN n_bm'.peer_block_map :
                           P \notin n_bm'.peer_block_map[b]
        /\ n_um' # n_um => n_ev'.op = "choke_tick" ]_vars

\* The cleanup of the last live connection has run: no connection is live,
\* the unchoke manager is empty and peer_block_map still has its keys.
C22_Witness ==
    /\ n_ev.op = "recv" /\ n_ev.type = "eof"
    /\ n_socks[n_ev.sock].st = "dead"
    /\ n_um = NewUnchokeManager
    /\ n_conns = EmptyDict
    /\ \A s \in SockIds : n_socks[s].st \notin {"dialing", "loop"}
    /\ \E b \in DOMAIN n_bm.peer_block_map : TRUE

\* The peers is_unchoked holds for.
Unchoked(m) == m.fixed_unchoked \cup OptSet(m.optimistic_unchoke)

\* -------------------------------------------------------------------------
\* C23: a connection starts choked by us; a block_data goes out on a
\* connection only if the last choke or unchoke frame we sent on that
\* connection was an unchoke; and a round of the choke task sends choke to
\* every peer of to_choke that is still connected and unchoke to every peer
\* of to_unchoke that is still connected.
\* -------------------------------------------------------------------------
C23_ChokeMessagesTrackServing ==
    [][ /\ \A s \in SockIds :
              (n_socks[s].st \notin {"loop"} /\ n_socks'[s].st = "loop")
                 => n_socks'[s].cbu
        /\ \A m \in n_sent' :
              m.msg.type = "block_data" => ~n_socks[m.sock].cbu
        /\ n_ev'.op = "choke_tick" =>
              /\ \A p \in (Unchoked(n_um) \ Unchoked(n_um')) \cap DOMAIN n_conns :
                    n_socks[n_conns[p]].st = "loop"
                       => Sent(n_conns[p], p, ChokeMsg) \in n_sent'
              /\ \A p \in (Unchoked(n_um') \ Unchoked(n_um)) \cap DOMAIN n_conns :
                    n_socks[n_conns[p]].st = "loop"
                       => Sent(n_conns[p], p, UnchokeMsg) \in n_sent' ]_vars

\* A block_data has gone out on a connection on which no unchoke was sent.
C23_Witness ==
    /\ n_ev.op = "serve"
    /\ \E m \in n_sent : /\ m.msg.type = "block_data"
                         /\ n_socks[m.sock].cbu

\* -------------------------------------------------------------------------
\* C24: after each round of the choke task, every peer is_unchoked holds for
\* is in the interested set of that round (the connected peers that lack a
\* block we hold), also when that set is empty.
\* -------------------------------------------------------------------------
C24_UnchokedAreInterested ==
    [][ n_ev'.op = "choke_tick" =>
           Unchoked(n_um') \subseteq Interested(n_bm, n_conns) ]_vars

\* A round of the choke task has found no interested peer while a connected
\* peer that holds every block we hold is unchoked.
C24_Witness ==
    /\ n_ev.op = "choke_tick"
    /\ Interested(n_bm, n_conns) = {}
    /\ \E p \in DOMAIN n_conns : /\ is_unchoked(n_um, p)
                                 /\ n_socks[n_conns[p]].st = "loop"
                                 /\ get_my_blocks(n_bm) # {}

\* -------------------------------------------------------------------------
\* C25: the optimistic peer is replaced only when OPTIMISTIC_INTERVAL (three
\* evaluations) has passed since it was chosen or when it is no longer
\* interested or connected; so an optimistic peer chosen by one evaluation
\* and still in the interested list of the next one is the optimistic peer
\* after that next evaluation.
\* -------------------------------------------------------------------------
C25_OptimisticKept ==
    [][ ( /\ um_last.op = "evaluate_peers"
          /\ um_last'.op = "evaluate_peers"
          /\ um.optimistic_unchoke # NoPeer
          /\ um.optimistic_unchoke \in um_last.to_unchoke
          /\ um.optimistic_unchoke \in Range(um_last'.interested) )
        => um'.optimistic_unchoke = um.optimistic_unchoke ]_vars

\* An evaluation over more than four interested peers has just chosen an
\* optimistic peer that was choked before.
C25_Witness ==
    /\ um_last.op = "evaluate_peers"
    /\ Len(um_last.interested) > MAX_FIXED_UNCHOKED
    /\ um.optimistic_unchoke # NoPeer
    /\ um.optimistic_unchoke \in um_last.to_unchoke

\* -------------------------------------------------------------------------
\* C26: a request_block for a block we own, received on a live connection
\* from a peer that is unchoked, is answered with one block_data that carries
\* the requested block id and whose data decodes to the bytes stored for it.
\* -------------------------------------------------------------------------
C26_UnchokedRequestServed ==
    (/\ bs_last.op = "request_block"
     /\ bs_last.ret
     /\ bs_last.id \in get_my_blocks(bs)) =>
        /\ bs_last.blocks = {bs_last.id}
        /\ bs_last.data # None
        /\ FromHex(bs_last.data) = bs.my_blocks[bs_last.id]

\* An unchoked peer has asked for a block that was stored with no bytes.
C26_Witness ==
    /\ bs_last.op = "request_block"
    /\ bs_last.ret
    /\ bs_last.id \in get_my_blocks(bs)
    /\ bs.my_blocks[bs_last.id] = <<>>

\* -------------------------------------------------------------------------
\* C30: every connection whose reader loop runs is the connection registered
\* in self.connections under its peer id; and the cleanup of a closed
\* connection to peer P, while another connection to P is live, removes
\* neither that connection's entry in self.connections nor P's entries in
\* peer_block_map nor P's choke state.
\* -------------------------------------------------------------------------
C30_CleanupSparesLiveConnection ==
    [][ /\ \A s \in SockIds :
              n_socks'[s].st = "loop" =>
                 /\ n_socks'[s].peer \in DOMAIN n_conns'
                 /\ n_conns'[n_socks'[s].peer] = s
        /\ (n_ev'.op = "recv" /\ n_ev'.type = "eof") =>
              LET P == n_socks[n_ev'.sock].peer
              IN  (\E t \in SockIds : /\ t # n_ev'.sock
                                      /\ n_socks[t].st = "loop"
                                      /\ n_socks[t].peer = P)
                  => /\ (P \in DOMAIN n_conns /\ n_conns[P] # n_ev'.sock) =>
                           (P \in DOMAIN n_conns' /\ n_conns'[P] = n_conns[P])
                     /\ get_peer_blocks(n_bm', P) = get_peer_blocks(n_bm, P)
                     /\ is_unchoked(n_um', P) = is_unchoked(n_um, P) ]_vars

\* The cleanup of one of two connections to the same peer has run: the other
\* connection still reads, and the peer is no longer in self.connections.
C30_Witness ==
    /\ n_ev.op = "recv" /\ n_ev.type = "eof"
    /\ \E t \in SockIds : /\ n_socks[t].st = "loop"
                          /\ n_socks[t].peer \notin DOMAIN n_conns

\* C28: over a whole run add_block returns True at most once for each block
\* id, also when two readers handle block_data for the same block at the same
\* time, so each block is followed by at most one _broadcast_have_update
\* (the have frames and the UPDATE_BLOCKS).
C28_AddBlockTrueOnce ==
    \A b \in FileBlockIds(TaskBlockSize) :
       /\ t_hist.added[b] <= 1
       /\ t_hist.bcast[b] <= 1

\* Two readers are handling block_data for the same block, both past the
\* test of add_block.
C28_Witness ==
    \E t1 \in TaskReaders, t2 \in TaskReaders :
       /\ t1 # t2
       /\ t_pc[t1].op = "add_block"
       /\ t_pc[t2].op = "add_block"
       /\ t_pc[t1].b = t_pc[t2].b

\* The tasks inside a BlockManager method, and those inside one that writes.
TaskInStore(t) ==
    t_pc[t].op \in {"add_block", "update_peer_blocks", "remove_peer_blocks",
                    "request_blocks"}
TaskMutating(t) ==
    t_pc[t].op \in {"add_block", "update_peer_blocks", "remove_peer_blocks"}

\* C29: no task is inside add_block, update_peer_blocks or remove_peer_blocks
\* while another task is inside any operation, writing or reading, of the
\* same BlockManager.
C29_StoreOperationsSerialized ==
    \A t1 \in TaskIds, t2 \in TaskIds :
       (t1 # t2 /\ TaskMutating(t1)) => ~TaskInStore(t2)

\* A reader is between the two loops of update_peer_blocks while the manager
\* is idle and the other reader has a frame to handle.
C29_Witness ==
    \E t1 \in TaskReaders, t2 \in TaskReaders :
       /\ t1 # t2
       /\ t_pc[t1].op = "update_peer_blocks"
       /\ t_pc[t2] = TaskIdle
       /\ t_pc[TaskManager] = TaskIdle

\* -------------------------------------------------------------------------
\* C27: with one seeder holding every block and two leechers that connect to
\* each other and to the seeder, no failure, and fairness on the manager
\* ticks, the choke ticks and the delivery of frames, both leechers
\* eventually are complete and hold every block of the file, whatever the
\* order in which the three peers register and learn of each other.
\* -------------------------------------------------------------------------
C27_BothLeechersEventuallyComplete ==
    <>(\A p \in {WLeecher, WLeecherB} :
          /\ is_complete(w_node[p].bm)
          /\ get_my_blocks(w_node[p].bm) = FileBlockIds(WBlockSize))

\* The three peers are up and both leechers are connected to the seeder and
\* to each other, neither holding the whole file yet.
C27_Witness ==
    /\ \A p \in W3Peers : w_node[p].mode = "up"
    /\ \A p \in {WLeecher, WLeecherB} :
          /\ DOMAIN w_node[p].conns = W3Peers \ {p}
          /\ ~is_complete(w_node[p].bm)

\* -------------------------------------------------------------------------
\* C40: load_from_file on a file of s bytes with block size k leaves
\* total_block_count = ceil(s / k) = n, the ids 0 .. n-1 in index order, every
\* block but the last of k bytes and the last of s - (n-1)*k bytes; the store
\* is then complete when s > 0, and for s = 0 total_block_count is 0 and
\* is_complete() is false.
\* -------------------------------------------------------------------------
C40_LoadFromFileBlocks ==
    bs_last.op = "load_from_file" =>
       LET s == Len(bs_last.data)
           k == bs.block_size
           n == bs.total_block_count
       IN  /\ n * k >= s
           /\ n > 0 => (n - 1) * k < s
           /\ bs.all_block_ids = [i \in 1..n |-> i - 1]
           /\ DOMAIN bs.my_blocks = 0..(n - 1)
           /\ \A b \in 0..(n - 2) : Len(bs.my_blocks[b]) = k
           /\ n > 0 => Len(bs.my_blocks[n - 1]) = s - (n - 1) * k
           /\ is_complete(bs) <=> s > 0

\* A file of three bytes was loaded with block size 2: the last block is
\* shorter than the others.
C40_Witness ==
    /\ bs_last.op = "load_from_file"
    /\ Len(bs_last.data) = 3
    /\ bs.block_size = 2

\* -------------------------------------------------------------------------
\* C32: once is_complete() is true for a store it is true in every later
\* state, whatever blocks and block sets the store is given afterwards, and
\* total_block_count and all_block_ids do not change once they are set.
\* -------------------------------------------------------------------------
C32_CompletionStable ==
    [][ /\ is_complete(bs) => is_complete(bs')
        /\ (bs.total_block_count # 0 \/ bs.all_block_ids # <<>>) =>
              /\ bs'.total_block_count = bs.total_block_count
              /\ bs'.all_block_ids = bs.all_block_ids ]_vars

\* A complete store was given a block it did not own.
C32_Witness ==
    /\ bs_last.op = "add_block"
    /\ bs_last.ret
    /\ bs.total_block_count # 0
    /\ Cardinality(DOMAIN bs.my_blocks) = bs.total_block_count + 1

\* -------------------------------------------------------------------------
\* C31: each have a node sends on its connections, and each UPDATE_BLOCKS it
\* sends to the tracker, carries a superset of the block set of the one sent
\* before, also when two readers accept different blocks at the same time;
\* and when no task is at work, the last set advertised is the owned set.
\* -------------------------------------------------------------------------
C31_AdvertisedSetsMonotone ==
    /\ [][ /\ t_hist.have \subseteq t_hist'.have
           /\ t_hist.upd \subseteq t_hist'.upd ]_vars
    /\ []((\A t \in TaskIds : t_pc[t] = TaskIdle) =>
             /\ t_hist.have = get_my_blocks(t_bm)
             /\ t_hist.upd = get_my_blocks(t_bm))

\* Two readers have each accepted a block, a different one, and neither has
\* sent its have yet.
C31_Witness ==
    \E t1 \in TaskReaders, t2 \in TaskReaders :
       /\ t_pc[t1].op \in {"broadcast", "have"}
       /\ t_pc[t2].op \in {"broadcast", "have"}
       /\ t_pc[t1].b # t_pc[t2].b
       /\ get_my_blocks(t_bm) = {t_pc[t1].b, t_pc[t2].b}

\* A missing block has a holder that is connected and has us unchoked.
Requestable(bm, conns, socks) ==
    \E b \in get_missing_blocks(bm) :
       \E p \in Candidates(bm, conns, socks, b) : socks[conns[p]].st = "loop"

\* The request_block frames among the frames a step sent.
RequestsIn(sent) == {m \in sent : m.msg.type = "request_block"}

\* -------------------------------------------------------------------------
\* C36: in one tick of the manager the node sends at most one request_block
\* over all its connections, and it sends exactly one whenever a missing
\* block has a holder that is connected and has the node unchoked.
\* -------------------------------------------------------------------------
C36_OneRequestPerTick ==
    [][ /\ Cardinality(RequestsIn(n_sent')) <= 1
        /\ RequestsIn(n_sent') # {} => n_ev'.op = "request_send"
        /\ n_ev'.op = "request_send" => n_mgr'.pc = "sleep"
        /\ (n_ev'.op = "dial_end"
              /\ Requestable(n_bm, n_conns, n_socks)) => n_mgr'.pc = "request"
        /\ (n_ev'.op = "request_pick"
              /\ Requestable(n_bm, n_conns, n_socks)) => n_mgr'.pc = "send"
        /\ (n_ev'.op = "request_send"
              /\ Requestable(n_bm, n_conns, n_socks)) =>
                 Cardinality(RequestsIn(n_sent')) = 1 ]_vars

\* A tick has ended without a request_block although a missing block has a
\* holder that is connected and has the node unchoked.
C36_Witness ==
    /\ n_ev.op = "request_send"
    /\ n_sent = {}
    /\ n_mgr.pc = "sleep"
    /\ Requestable(n_bm, n_conns, n_socks)

\* The step just taken is a dial that failed: connect() failed (the loop moves
\* on with no connection made) or the reply to our handshake is no handshake.
DialFailed(ev, mgr) ==
    \/ ev.op = "dial_skip"
    \/ ev.op = "dial_reply" /\ ev.type # "handshake"

\* -------------------------------------------------------------------------
\* C34: a failed outbound dial registers no connection, leaves the known
\* peers, the peer block map and the choke state as they were, and the peer,
\* still known, is in the list the next manager tick walks through.
\* -------------------------------------------------------------------------
C34_FailedDialChangesNothing ==
    [][ /\ DialFailed(n_ev', n_mgr') =>
              /\ n_conns' = n_conns
              /\ n_known' = n_known
              /\ n_bm'.peer_block_map = n_bm.peer_block_map
              /\ n_um' = n_um
              /\ \A s \in n_mgr.dial :
                    /\ n_socks'[s].st = "dead"
                    /\ \A p \in DOMAIN n_conns' : n_conns'[p] # s
        /\ n_ev'.op = "tick" =>
              /\ n_mgr'.pc = "dial"
              /\ n_mgr'.todo = n_known' ]_vars

\* The reply to our handshake was not a handshake, and the peer is still known.
C34_Witness ==
    /\ n_ev.op = "dial_reply"
    /\ n_ev.type # "handshake"
    /\ n_socks[n_ev.sock].st = "dead"
    /\ Len(n_known) > 0
    /\ n_mgr.pc = "dial"


\* The peers registered under some file of `files` and gone from it in `after`.
Evicted(files, after) ==
    {q \in TrackerPeers :
        \E f \in DOMAIN files :
           q \in DOMAIN files[f] /\ q \notin DOMAIN after[f]}

\* -------------------------------------------------------------------------
\* C37: when a tracker connection ends with an error after the request's
\* peer_id was read, that peer_id is gone from the registry of every file
\* and no other entry is removed or changed by the eviction; a connection
\* that ends without an error removes nobody.
\* -------------------------------------------------------------------------
C37_ErrorEvictsThatPeerOnly ==
    [][ LET m  == tk_last'.msg
            st == tk_last'.response.status
        IN  /\ (st \in {"lost", "raised"} /\ m.peer_id # NoPeer) =>
                  /\ \A f \in DOMAIN tk' : m.peer_id \notin DOMAIN tk'[f]
                  /\ Evicted(tk, tk') \subseteq {m.peer_id}
                  /\ \A f \in DOMAIN tk : \A q \in DOMAIN tk[f] \ {m.peer_id} :
                        tk'[f][q] = tk[f][q]
            /\ st \in {"ok", "error", "unread"} => Evicted(tk, tk') = {}
      ]_vars

\* A failed connection of peer 1 evicted it while it was registered under
\* both files, next to another peer.
C37_Witness ==
    /\ tk_last.response.status \in {"lost", "raised"}
    /\ tk_last.msg.peer_id = 1
    /\ \A f \in TrackerFiles : Registered(tk_last.before, f, 1)
    /\ Registered(tk_last.before, "a.bin", 2)
    /\ Registered(tk, "a.bin", 2)
    /\ \A f \in DOMAIN tk : ~Registered(tk, f, 1)

\* -------------------------------------------------------------------------
\* C38: in the UnchokeManager of src/peer, after any sequence of calls the
\* fixed set has at most MAX_FIXED_UNCHOKED members, there is at most one
\* optimistic peer, and the optimistic peer is not in the fixed set.
\* -------------------------------------------------------------------------
C38_RateSlots ==
    /\ Cardinality(rm.fixed_peers) <= PEER_MAX_FIXED_UNCHOKED
    /\ rm.optimistic_peer \in RatePeers \cup {NoPeer}
    /\ rm.optimistic_peer \notin rm.fixed_peers

\* evaluate_peers has returned with the optimistic peer in the fixed set,
\* which is full.
C38_Witness ==
    /\ rm_last.op = "evaluate_peers"
    /\ rm.optimistic_peer \in rm.fixed_peers
    /\ Cardinality(rm.fixed_peers) = PEER_MAX_FIXED_UNCHOKED

\* -------------------------------------------------------------------------
\* C39: in the UnchokeManager of src/peer, record_download and
\* set_peer_interested return, for a registered peer and for one that is not
\* registered: no call waits forever for the manager's lock.
\* -------------------------------------------------------------------------
C39_CallsReturn ==
    /\ rm_last.op \in {"record_download", "set_peer_interested"} =>
          rm_last.returned
    /\ rm.lock = "free"

\* set_peer_interested was called for a peer that is not registered, as the
\* reader of an outbound connection does before register_peer ran.
C39_Witness ==
    /\ rm_last.op = "set_peer_interested"
    /\ rm_last.peer \notin DOMAIN rm.peer_stats
    /\ rm.lock = "held"


\* -------------------------------------------------------------------------
\* C35: the manager dials a known, not yet connected peer only while fewer
\* than MAX_CONNECTIONS connections are active, so a dial never raises the
\* number of active connections above MAX_CONNECTIONS.
\* -------------------------------------------------------------------------
C35_DialingBounded ==
    dc_last.op = "dial" =>
       /\ dc_last.before < MAX_CONNECTIONS
       /\ Cardinality(dc.connections) <= MAX_CONNECTIONS

\* A dial has registered a connection next to MAX_CONNECTIONS others.
C35_Witness ==
    /\ dc_last.op = "dial"
    /\ dc_last.before = MAX_CONNECTIONS
    /\ Cardinality(dc.connections) = MAX_CONNECTIONS + 1

\* Every task of the node has ended and nothing is left open.
PeriodicTasksEnded == sd.mgr.pc = "exit" /\ sd.choke = "exit"
ReadersEnded == \A c \in StopConns : sd.conn[c].st \notin {"loop", "read"}
ConnectionsClosed == \A c \in StopConns : ~sd.conn[c].connected
NoActiveConnections == DOMAIN sd.connections = {}

\* -------------------------------------------------------------------------
\* C33: after stop(), under fair scheduling, the periodic loops and every
\* reader task end, every connection is closed, and the active connections
\* become empty and stay empty, whatever was in progress when stop() ran.
\* -------------------------------------------------------------------------
C33_StopQuiesces ==
    [](~sd.running =>
          <>[](/\ PeriodicTasksEnded
               /\ ReadersEnded
               /\ ConnectionsClosed
               /\ NoActiveConnections))

\* stop() ran while the reader of an inbound connection was inside
\* read_message and the manager was waiting for the reply to a dial.
C33_Witness ==
    /\ ~sd.running
    /\ \E c \in StopConns :
          sd.conn[c].st = "read" /\ ~sd.conn[c].outbound /\ ~sd.conn[c].connected
    /\ \E c \in StopConns : sd.conn[c].st = "dial"
====
